---- MODULE Spec2Model ----
(***************************************************************************)
(* goidc: OAuth 2.1 / OpenID Connect authorization server.                 *)
(*                                                                         *)
(* Model of the token endpoint's authorization_code grant (the lookup      *)
(* goroutine that runs concurrently with client authentication), of the    *)
(* grant-session and authn-session stores, of PAR request_uri handling,    *)
(* of refresh-token rotation and of access-token introspection.            *)
(***************************************************************************)
EXTENDS Integers, Sequences, FiniteSets, TLC

(***************************************************************************)
(* Bounds of the model.                                                    *)
(***************************************************************************)
NumReqs == 2
MaxCodes == 1
MaxTime == 3
NumAuthorizeReqs == 2
MaxPushed == 1
NumRefreshReqs == 3
MaxGrants == 1

(***************************************************************************)
(* Configured lifetimes, in ticks of the model's clock.                    *)
(***************************************************************************)
AuthorizationCodeLifetimeSecs == 1
ParLifetimeSecs == 1
TokenLifetimeSecs == 1
RefreshTokenLifetimeSecs == 2

(***************************************************************************)
(* Registered clients.  Every client authenticates with                    *)
(* client_secret_post; cid3 is not allowed the authorization_code grant.   *)
(***************************************************************************)
GrantAuthorizationCode == "authorization_code"
GrantRefreshToken == "refresh_token"
GrantClientCredentials == "client_credentials"

ClientIDs == {"cid1", "cid2", "cid3"}

ClientStore ==
  [c \in ClientIDs |->
     [ID |-> c,
      Secret |-> IF c = "cid1" THEN "s1" ELSE IF c = "cid2" THEN "s2" ELSE "s3",
      GrantTypes |-> IF c = "cid3" THEN {GrantClientCredentials}
                     ELSE {GrantAuthorizationCode, GrantRefreshToken}]]

RedirectURIs == {"ru1", "ru2"}

\* The client and the redirect URI of the authorization requests that the
\* user approves.
AuthorizingClients == {"cid1"}
AuthorizedRedirectURIs == {"ru1"}

\* The empty authorization code of a request that carries none.
EmptyCode == 0

TokenRequest(c, secret, code, ru) ==
  [ClientAuthnRequest |-> [ClientID |-> c, ClientSecret |-> secret],
   AuthorizationCode |-> code, RedirectURI |-> ru]

\* The token requests of the model: for every code, the request of the
\* client the code was issued to, the same with a wrong secret, with another
\* redirect URI, from another client and from a client that is not allowed
\* the authorization_code grant; and a request without a code.
TokenRequests ==
  {TokenRequest("cid1", "s1", EmptyCode, "ru1")} \cup
  UNION {{TokenRequest("cid1", "s1", code, "ru1"),
          TokenRequest("cid1", "wrong", code, "ru1"),
          TokenRequest("cid1", "s1", code, "ru2"),
          TokenRequest("cid2", "s2", code, "ru1"),
          TokenRequest("cid3", "s3", code, "ru1")} : code \in 1..MaxCodes}

\* The empty string of a request_uri, callback_id or refresh token.
Empty == 0

ScopeOpenID == "openid"
ScopeOfflineAccess == "offline_access"

(***************************************************************************)
(* AuthnSession and GrantSession records.                                  *)
(***************************************************************************)
AuthnSession(id, cl, ru, uri, cb, code, created, expires, scopes) ==
  [ID |-> id, ClientID |-> cl, RedirectURI |-> ru, RequestURI |-> uri,
   CallbackID |-> cb, AuthorizationCode |-> code,
   CreatedAtTimestamp |-> created, ExpiresAtTimestamp |-> expires,
   GrantedScopes |-> scopes]

NoSession == [ID |-> 0]
NoResponse == [op |-> "none"]
NoClient == "none"
NoArgs == [op |-> "none"]
NoResult == [op |-> "none"]
NoSnap == [authnSessions |-> {}, grantSessions |-> {}, nextCode |-> 0]

ErrorCodeInvalidRequest == "invalid_request"
ErrorCodeInvalidClient == "invalid_client"
ErrorCodeInvalidGrant == "invalid_grant"
ErrorCodeUnauthorizedClient == "unauthorized_client"
ErrorCodeInternalError == "internal_error"
ErrorCodeAccessDenied == "access_denied"

\* The status an authentication step reports.
InProgress == "in_progress"
Success == "success"
Failure == "failure"
NoPolicyAvailable == "no policy available"

VARIABLES
  authnSessions,  \* the authn-session store: a set of AuthnSession records
  grantSessions,  \* the grant-session store: a set of GrantSession records
  req,            \* per token request: handler and goroutine positions
  now,            \* the clock
  nextCode,       \* the next authorization code to be generated
  crashed,        \* the process died of a panic outside a handler
  snap,           \* history: the stores as the first token request found them
  areq,           \* per GET /authorize request: handler position
  nextURI,        \* the next request_uri (and session id) of /par
  nextToken,      \* the next random token string (token id, refresh token)
  issued,         \* history: <<grant session id, refresh token>> issued
  rotated,        \* history: the refresh tokens redeemed successfully
  out,            \* the response of the last introspection
  rreq,           \* the refresh_token grant requests
  args,           \* the inputs of the validator under check
  result          \* what the validator returned for args

\* The variables of the authorization endpoint and of the grant sessions'
\* life after issuance; the token requests leave them alone.
authorizeVars == <<areq, nextURI>>
grantVars == <<nextToken, issued, rotated, out, rreq>>
tokenVars == <<req, nextCode, crashed, snap>>
callVars == <<args, result>>

vars == <<authnSessions, grantSessions, req, now, nextCode, crashed, snap,
          areq, nextURI, nextToken, issued, rotated, out, rreq, args,
          result>>

Reqs == 1..NumReqs

IdleReq ==
  [pc |-> "idle",
   in |-> [ClientAuthnRequest |-> [ClientID |-> "cid1", ClientSecret |-> "s1"],
                          AuthorizationCode |-> 0, RedirectURI |-> "ru1"],
   g |-> "none", gsession |-> NoSession, client |-> NoClient,
   session |-> NoSession, resp |-> "none"]

(***************************************************************************)
(* Client.IsGrantTypeAllowed                                               *)
(***************************************************************************)
IsGrantTypeAllowed(client, grantType) ==
  grantType \in ClientStore[client].GrantTypes

(***************************************************************************)
(* authn.Client: identify the client, load it and authenticate it          *)
(* (client_secret_post).  The result is the client id or NoClient.         *)
(***************************************************************************)
AuthnClient(creq) ==
  IF creq.ClientID \notin ClientIDs THEN NoClient
  ELSE IF creq.ClientSecret # ClientStore[creq.ClientID].Secret THEN NoClient
  ELSE creq.ClientID

(***************************************************************************)
(* The authn-session store.                                                *)
(***************************************************************************)
AuthnSessionByAuthorizationCode(code) ==
  IF \E s \in authnSessions : s.AuthorizationCode = code
  THEN CHOOSE s \in authnSessions : s.AuthorizationCode = code
  ELSE NoSession

\* Delete-if-exists with a success signal: TRUE iff a session was deleted.
DeleteAuthnSessionOK(id) == \E s \in authnSessions : s.ID = id

DeleteAuthnSession(id) == {s \in authnSessions : s.ID # id}

(***************************************************************************)
(* AuthnSession.IsExpired                                                  *)
(***************************************************************************)
IsExpired(session) == now > session.ExpiresAtTimestamp

\* Mutant: the redirect_uri of the request is not compared.
validateWithoutRedirectURI(r, client, session) ==
  IF ~IsGrantTypeAllowed(client, GrantAuthorizationCode)
    THEN ErrorCodeUnauthorizedClient
  ELSE IF session.ClientID # client THEN ErrorCodeInvalidGrant
  ELSE IF now > session.ExpiresAtTimestamp THEN ErrorCodeInvalidGrant
  ELSE "ok"

(***************************************************************************)
(* validateAuthorizationCodeGrantRequest: the first failing check decides  *)
(* the error; "ok" when every check passes.                                *)
(***************************************************************************)
validateAuthorizationCodeGrantRequest(r, client, session) ==
  IF ~IsGrantTypeAllowed(client, GrantAuthorizationCode)
    THEN ErrorCodeUnauthorizedClient
  ELSE IF session.ClientID # client THEN ErrorCodeInvalidGrant
  ELSE IF IsExpired(session) THEN ErrorCodeInvalidGrant
  ELSE IF session.RedirectURI # r.RedirectURI THEN ErrorCodeInvalidGrant
  ELSE "ok"

RefreshReqs == 1..NumRefreshReqs

RefreshRequest(c, token) == [ClientID |-> c, RefreshToken |-> token]

IdleRefreshReq ==
  [pc |-> "idle", in |-> RefreshRequest("cid1", Empty), session |-> NoSession,
   stale |-> FALSE, resp |-> "none"]

(***************************************************************************)
(* InMemoryGrantSessionManager.                                            *)
(***************************************************************************)
\* The mutant of CreateOrUpdateGrantSession that adds the session without
\* replacing the one stored under its id.
CreateGrantSessionKeepingOld(session) == grantSessions \cup {session}

CreateOrUpdateGrantSession(session) ==
  {g \in grantSessions : g.ID # session.ID} \cup {session}

GrantSessionByTokenID(tokenID) ==
  IF \E g \in grantSessions : g.TokenID = tokenID
    THEN CHOOSE g \in grantSessions : g.TokenID = tokenID
    ELSE NoSession

GrantSessionByRefreshToken(refreshToken) ==
  IF \E g \in grantSessions : g.RefreshToken = refreshToken
    THEN CHOOSE g \in grantSessions : g.RefreshToken = refreshToken
    ELSE NoSession

IsRefreshSessionExpired(grantSession) == now > grantSession.ExpiresAtTimestamp

HasLastTokenExpired(grantSession) ==
  now > grantSession.LastTokenIssuedAtTimestamp + grantSession.TokenLifetimeSecs

AuthorizeReqs == 1..NumAuthorizeReqs

AuthorizeRequest(c, uri, ru) ==
  [ClientID |-> c, RequestURI |-> uri, RedirectURI |-> ru]

\* The GET /authorize requests of the model: per pushed request_uri, the
\* pushing client with no other parameter, another client, and the pushing
\* client repeating redirect_uri in the query.
AuthorizeRequests ==
  UNION {{AuthorizeRequest("cid1", uri, ""),
          AuthorizeRequest("cid2", uri, ""),
          AuthorizeRequest("cid1", uri, "ru1")} : uri \in 1..MaxPushed}

IdleAuthorizeReq ==
  [pc |-> "idle", in |-> AuthorizeRequest("cid1", Empty, ""),
   session |-> NoSession, resp |-> "none"]

Init ==
  /\ authnSessions = {}
  /\ grantSessions = {}
  /\ req = [r \in Reqs |-> IdleReq]
  /\ now = 0
  /\ nextCode = 1
  /\ crashed = FALSE
  /\ snap = NoSnap
  /\ areq = [a \in AuthorizeReqs |-> IdleAuthorizeReq]
  /\ nextURI = 1
  /\ nextToken = 1
  /\ issued = {}
  /\ rotated = {}
  /\ out = NoResponse
  /\ rreq = [q \in RefreshReqs |-> IdleRefreshReq]
  /\ args = NoArgs
  /\ result = NoResult

(***************************************************************************)
(* The authorization flow ends in success for a response type with code:   *)
(* the session holding the new authorization code stays persisted.         *)
(***************************************************************************)
IssueCode(cl, ru) ==
  /\ ~crashed
  /\ nextCode <= MaxCodes
  /\ IsGrantTypeAllowed(cl, GrantAuthorizationCode)
  /\ authnSessions' = authnSessions \cup
       {AuthnSession(nextCode, cl, ru, Empty, Empty, nextCode, now,
                     now + AuthorizationCodeLifetimeSecs, {ScopeOpenID})}
  /\ nextCode' = nextCode + 1
  /\ UNCHANGED <<grantSessions, req, now, crashed, snap>>
  /\ UNCHANGED <<authorizeVars, grantVars, callVars>>

\* The clock the handlers read with GetTimestampNow.
Tick ==
  /\ now < MaxTime
  /\ now' = now + 1
  /\ UNCHANGED <<authnSessions, grantSessions, tokenVars>>
  /\ UNCHANGED <<authorizeVars, grantVars, callVars>>

(***************************************************************************)
(* handleAuthorizationCodeGrantTokenCreation up to the receive: an empty   *)
(* code is rejected; otherwise getAuthenticatedClientAndSession starts the *)
(* lookup goroutine and authenticates the client with authn.Client.  On    *)
(* failure the handler returns without receiving from the channel.         *)
(***************************************************************************)
StartTokenRequest(r, in) ==
  /\ ~crashed
  /\ req[r].pc = "idle"
  /\ \A q \in Reqs : q < r => req[q].pc # "idle"
  /\ LET c == AuthnClient(in.ClientAuthnRequest) IN
       IF in.AuthorizationCode = EmptyCode
         THEN req' = [req EXCEPT ![r].pc = "done", ![r].in = in,
                                 ![r].resp = ErrorCodeInvalidRequest]
       ELSE IF c = NoClient
         THEN req' = [req EXCEPT ![r].pc = "done", ![r].in = in,
                                 ![r].g = "get",
                                 ![r].resp = ErrorCodeInvalidClient]
       ELSE req' = [req EXCEPT ![r].pc = "recv", ![r].in = in,
                               ![r].g = "get", ![r].client = c]
  /\ snap' = IF \A q \in Reqs : req[q].pc = "idle"
                THEN [authnSessions |-> authnSessions,
                      grantSessions |-> grantSessions, nextCode |-> nextCode]
                ELSE snap
  /\ UNCHANGED <<authnSessions, grantSessions, now, nextCode, crashed>>
  /\ UNCHANGED <<authorizeVars, grantVars, callVars>>

(***************************************************************************)
(* getSessionByAuthorizationCode, first statement: load the session by     *)
(* its authorization code.                                                 *)
(***************************************************************************)
GoroutineGet(r) ==
  /\ ~crashed
  /\ req[r].g = "get"
  /\ LET s == AuthnSessionByAuthorizationCode(req[r].in.AuthorizationCode) IN
       IF s = NoSession
         THEN req' = [req EXCEPT ![r].g = "send_notfound"]
         ELSE req' = [req EXCEPT ![r].g = "delete", ![r].gsession = s]
  /\ UNCHANGED <<authnSessions, grantSessions, now, nextCode, crashed, snap>>
  /\ UNCHANGED <<authorizeVars, grantVars, callVars>>

\* Mutant: the result of the delete is not looked at.
GoroutineDeleteUnchecked(r) ==
  /\ ~crashed
  /\ req[r].g = "delete"
  /\ authnSessions' = DeleteAuthnSession(req[r].gsession.ID)
  /\ req' = [req EXCEPT ![r].g = "send_ok"]
  /\ UNCHANGED <<grantSessions, now, nextCode, crashed, snap>>
  /\ UNCHANGED <<authorizeVars, grantVars, callVars>>

\* Mutant: the session is sent to the handler before it is deleted, and the
\* handler runs on before the delete takes place.
GoroutineSendBeforeDelete(r) ==
  /\ ~crashed
  /\ req[r].g = "delete"
  /\ req' = [req EXCEPT ![r].g = "send_ok"]
  /\ UNCHANGED <<authnSessions, grantSessions, now, nextCode, crashed, snap>>
  /\ UNCHANGED <<authorizeVars, grantVars, callVars>>

(***************************************************************************)
(* getSessionByAuthorizationCode: delete the loaded session.  A failed     *)
(* delete makes the goroutine send an internal error.                      *)
(***************************************************************************)
GoroutineDelete(r) ==
  /\ ~crashed
  /\ req[r].g = "delete"
  /\ IF DeleteAuthnSessionOK(req[r].gsession.ID)
       THEN /\ authnSessions' = DeleteAuthnSession(req[r].gsession.ID)
            /\ req' = [req EXCEPT ![r].g = "send_ok"]
       ELSE /\ req' = [req EXCEPT ![r].g = "send_delerr"]
            /\ UNCHANGED authnSessions
  /\ UNCHANGED <<grantSessions, now, nextCode, crashed, snap>>
  /\ UNCHANGED <<authorizeVars, grantVars, callVars>>

(***************************************************************************)
(* After the invalid_grant result has been received the goroutine does not *)
(* return: it goes on to session.ID.  A nil session panics outside any     *)
(* handler and ends the process; a zero-valued session leads to a failed   *)
(* delete and to a send that nobody receives.                              *)
(***************************************************************************)
GoroutineDeref(r) ==
  /\ ~crashed
  /\ req[r].g = "deref"
  /\ \/ /\ crashed' = TRUE
        /\ req' = [req EXCEPT ![r].g = "panicked"]
     \/ /\ req' = [req EXCEPT ![r].g = "send_delerr"]
        /\ UNCHANGED crashed
  /\ UNCHANGED <<authnSessions, grantSessions, now, nextCode, snap>>
  /\ UNCHANGED <<authorizeVars, grantVars, callVars>>

(***************************************************************************)
(* NewGrantSession and generateAuthorizationCodeGrantSession.              *)
(***************************************************************************)
NewGrantSession(id, tokenID, cl, scopes) ==
  [ID |-> id, TokenID |-> tokenID, RefreshToken |-> Empty, ClientID |-> cl,
   CreatedAtTimestamp |-> now, LastTokenIssuedAtTimestamp |-> now,
   ExpiresAtTimestamp |-> now + TokenLifetimeSecs,
   TokenLifetimeSecs |-> TokenLifetimeSecs, GrantedScopes |-> scopes]

\* A variant that issues the refresh token and leaves the expiry of the
\* session at the lifetime of the access token.
generateGrantSessionKeepingExpiry(id, tokenID, cl, scopes, refreshToken) ==
  IF ScopeOfflineAccess \in scopes
    THEN [NewGrantSession(id, tokenID, cl, scopes) EXCEPT
            !.RefreshToken = refreshToken]
    ELSE NewGrantSession(id, tokenID, cl, scopes)

\* refreshToken is the fresh random string used when offline_access is
\* granted.
generateAuthorizationCodeGrantSession(id, tokenID, cl, scopes, refreshToken) ==
  IF ScopeOfflineAccess \in scopes
    THEN [NewGrantSession(id, tokenID, cl, scopes) EXCEPT
            !.RefreshToken = refreshToken,
            !.ExpiresAtTimestamp = now + RefreshTokenLifetimeSecs]
    ELSE NewGrantSession(id, tokenID, cl, scopes)

\* The grant session a token request writes: its id and token id are the
\* request's.
GrantSessionOfRequest(r, session) ==
  generateAuthorizationCodeGrantSession(r, r, session.ClientID,
                                        session.GrantedScopes, r)

(***************************************************************************)
(* getAuthenticatedClientAndSession: sessionResult := <-sessionResultCh,   *)
(* a rendezvous with the goroutine's pending send.  Every error result     *)
(* carries a nil Result, and the unchecked type assertion                  *)
(* of Result to a pointer to AuthnSession panics on it.  With a session    *)
(* handleAuthorizationCodeGrantTokenCreation goes on: it validates the     *)
(* request against the session, makes the token and saves the grant        *)
(* session.                                                                *)
(***************************************************************************)
Receive(r) ==
  /\ ~crashed
  /\ req[r].pc = "recv"
  /\ req[r].g \in {"send_notfound", "send_delerr", "send_ok"}
  /\ CASE req[r].g = "send_ok" ->
            LET v == validateAuthorizationCodeGrantRequest(
                       req[r].in, req[r].client, req[r].gsession) IN
              IF v # "ok"
                THEN /\ req' = [req EXCEPT ![r].pc = "done", ![r].g = "done",
                                           ![r].session = req[r].gsession,
                                           ![r].resp = v]
                     /\ UNCHANGED grantSessions
                ELSE /\ grantSessions' = CreateOrUpdateGrantSession(
                                           GrantSessionOfRequest(r, req[r].gsession))
                     /\ req' = [req EXCEPT ![r].pc = "done", ![r].g = "done",
                                           ![r].session = req[r].gsession,
                                           ![r].resp = "ok"]
       [] req[r].g = "send_notfound" ->
            /\ req' = [req EXCEPT ![r].pc = "done", ![r].resp = "panic",
                                  ![r].g = "deref"]
            /\ UNCHANGED grantSessions
       [] req[r].g = "send_delerr" ->
            /\ req' = [req EXCEPT ![r].pc = "done", ![r].resp = "panic",
                                  ![r].g = "send_ok"]
            /\ UNCHANGED grantSessions
  /\ UNCHANGED <<authnSessions, now, nextCode, crashed, snap>>
  /\ UNCHANGED <<authorizeVars, grantVars, callVars>>

Next ==
  \/ \E cl \in AuthorizingClients, ru \in AuthorizedRedirectURIs : IssueCode(cl, ru)
  \/ \E r \in Reqs, in \in TokenRequests : StartTokenRequest(r, in)
  \/ \E r \in Reqs : GoroutineGet(r)
  \/ \E r \in Reqs : GoroutineDelete(r)
  \/ \E r \in Reqs : GoroutineDeref(r)
  \/ \E r \in Reqs : Receive(r)

Spec == Init /\ [][Next]_vars

(***************************************************************************)
(* Pushed authorization requests and GET /authorize with a request_uri.    *)
(***************************************************************************)
AuthnSessionByRequestURI(uri) ==
  IF \E s \in authnSessions : s.RequestURI = uri
    THEN CHOOSE s \in authnSessions : s.RequestURI = uri
    ELSE NoSession

CreateOrUpdateAuthnSession(session) ==
  {s \in authnSessions : s.ID # session.ID} \cup {session}

\* POST /par persists a session under a new request_uri.
PushAuthorization(cl) ==
  /\ nextURI <= MaxPushed
  /\ authnSessions' = authnSessions \cup
       {AuthnSession(nextURI, cl, "ru1", nextURI, Empty, Empty, now,
                     now + ParLifetimeSecs, {ScopeOpenID})}
  /\ nextURI' = nextURI + 1
  /\ UNCHANGED <<grantSessions, now, tokenVars, callVars, areq, grantVars>>

\* Mutant: the age of the pushed session is not checked.
validateWithoutPARLifetime(session, in) ==
  IF session.ClientID # in.ClientID
    THEN ErrorCodeAccessDenied
  ELSE IF in.RedirectURI # ""
    THEN ErrorCodeInvalidRequest
  ELSE "ok"

validateAuthorizeWithPARParams(session, in) ==
  IF now > session.CreatedAtTimestamp + ParLifetimeSecs
    THEN ErrorCodeInvalidRequest
  ELSE IF session.ClientID # in.ClientID
    THEN ErrorCodeAccessDenied
  ELSE IF in.RedirectURI # ""
    THEN ErrorCodeInvalidRequest
  ELSE "ok"

\* initValidAuthenticationSessionWithPAR, the lookup: a request_uri no
\* session is stored under is answered invalid_request.
StartAuthorizeRequest(a, in) ==
  /\ areq[a].pc = "idle"
  /\ \A q \in AuthorizeReqs : q < a => areq[q].pc # "idle"
  /\ LET session == AuthnSessionByRequestURI(in.RequestURI) IN
       IF session = NoSession
         THEN areq' = [areq EXCEPT ![a].pc = "done", ![a].in = in,
                                   ![a].resp = ErrorCodeInvalidRequest]
         ELSE areq' = [areq EXCEPT ![a].pc = "validate", ![a].in = in,
                                   ![a].session = session]
  /\ UNCHANGED <<authnSessions, grantSessions, now, tokenVars, callVars, nextURI,
                 grantVars>>

\* initValidAuthenticationSessionWithPAR, after the lookup: an invalid
\* request deletes the stored session; a valid one clears the request_uri
\* and sets a new callback id in the handler's copy of the session.
ValidateAuthorizeWithPAR(a) ==
  /\ areq[a].pc = "validate"
  /\ LET v == validateAuthorizeWithPARParams(areq[a].session, areq[a].in) IN
       IF v # "ok"
         THEN /\ authnSessions' = DeleteAuthnSession(areq[a].session.ID)
              /\ areq' = [areq EXCEPT ![a].pc = "done", ![a].resp = v]
         ELSE /\ areq' = [areq EXCEPT ![a].pc = "policy",
                                      ![a].session.RequestURI = Empty,
                                      ![a].session.CallbackID = a]
              /\ UNCHANGED authnSessions
  /\ UNCHANGED <<grantSessions, now, tokenVars, callVars, nextURI, grantVars>>

\* InitAuthentication from GetPolicy on, authenticate and
\* updateOrDeleteSession.  status is what the policy's steps end with; the
\* response type of a pushed request contains code.
Authenticate(a, status) ==
  /\ areq[a].pc = "policy"
  /\ areq' = [areq EXCEPT ![a].pc = "done", ![a].resp = status]
  /\ authnSessions' =
       CASE status = NoPolicyAvailable -> authnSessions
         [] status = Failure -> DeleteAuthnSession(areq[a].session.ID)
         [] status = InProgress -> CreateOrUpdateAuthnSession(areq[a].session)
         [] status = Success ->
              CreateOrUpdateAuthnSession(
                [areq[a].session EXCEPT !.AuthorizationCode = a])
  /\ UNCHANGED <<grantSessions, now, tokenVars, callVars, nextURI, grantVars>>

NextPAR ==
  \/ \E cl \in AuthorizingClients : PushAuthorization(cl)
  \/ \E a \in AuthorizeReqs, in \in AuthorizeRequests :
       StartAuthorizeRequest(a, in)
  \/ \E a \in AuthorizeReqs : ValidateAuthorizeWithPAR(a)
  \/ \E a \in AuthorizeReqs,
        status \in {NoPolicyAvailable, InProgress, Success, Failure} :
       Authenticate(a, status)
  \/ Tick

SpecPAR == Init /\ [][NextPAR]_vars

(***************************************************************************)
(* Grant sessions after the code redemption: the refresh_token grant and   *)
(* token introspection.                                                    *)
(***************************************************************************)
\* The random strings a token id or a refresh token is made of: two per
\* grant session and two per rotation.
Tokens == 1..(2 * (MaxGrants + NumRefreshReqs))

\* The refresh tokens handed out so far.
IssuedRefreshTokens == {p[2] : p \in issued}

\* generateAuthorizationCodeGrantSession for a redeemed code of client cl
\* with the granted scopes: the session's id and token id are one fresh
\* string, its refresh token the next one.
IssueGrant(cl, scopes) ==
  /\ Cardinality(grantSessions) < MaxGrants
  /\ LET session == generateAuthorizationCodeGrantSession(
                      nextToken, nextToken, cl, scopes, nextToken + 1) IN
       /\ grantSessions' = CreateOrUpdateGrantSession(session)
       /\ issued' = IF session.RefreshToken # Empty
                      THEN issued \cup {<<session.ID, session.RefreshToken>>}
                      ELSE issued
  /\ nextToken' = nextToken + 2
  /\ UNCHANGED <<authnSessions, now, tokenVars, callVars, authorizeVars, rotated, out,
                 rreq>>

\* The refresh_token grant, the lookup: a refresh token no grant session is
\* stored under is answered invalid_grant.
StartRefreshTokenGrant(q, cl, token) ==
  /\ rreq[q].pc = "idle"
  /\ \A p \in RefreshReqs : p < q => rreq[p].pc # "idle"
  /\ token \in IssuedRefreshTokens
  /\ LET in == RefreshRequest(cl, token)
         session == GrantSessionByRefreshToken(token) IN
       IF session = NoSession
         THEN rreq' = [rreq EXCEPT ![q].pc = "done",
                                   ![q].stale = in.RefreshToken \in rotated,
                                   ![q].resp = ErrorCodeInvalidGrant]
         ELSE rreq' = [rreq EXCEPT ![q].pc = "loaded", ![q].in = in,
                                   ![q].stale = in.RefreshToken \in rotated,
                                   ![q].session = session]
  /\ UNCHANGED <<authnSessions, grantSessions, now, tokenVars, callVars, authorizeVars,
                 nextToken, issued, rotated, out>>

\* The refresh_token grant, after the lookup: the session must belong to the
\* client and not be expired; the rotation stores a new token id and a new
\* refresh token under the session's id and sets last_token_issued_at.  The
\* handler's request and its copy of the session are gone when it returns.
FinishRefreshTokenGrant(q) ==
  /\ rreq[q].pc = "loaded"
  /\ LET session == rreq[q].session IN
       IF session.ClientID # rreq[q].in.ClientID
            \/ IsRefreshSessionExpired(session)
         THEN /\ rreq' = [rreq EXCEPT ![q].pc = "done",
                                      ![q].in = IdleRefreshReq.in,
                                      ![q].session = NoSession,
                                      ![q].resp = ErrorCodeInvalidGrant]
              /\ UNCHANGED <<grantSessions, nextToken, issued, rotated>>
         ELSE /\ grantSessions' = CreateOrUpdateGrantSession(
                   [session EXCEPT !.TokenID = nextToken,
                                   !.RefreshToken = nextToken + 1,
                                   !.LastTokenIssuedAtTimestamp = now])
              /\ nextToken' = nextToken + 2
              /\ issued' = issued \cup {<<session.ID, nextToken + 1>>}
              /\ rotated' = rotated \cup {rreq[q].in.RefreshToken}
              /\ rreq' = [rreq EXCEPT ![q].pc = "done",
                                      ![q].in = IdleRefreshReq.in,
                                      ![q].session = NoSession,
                                      ![q].resp = "ok"]
  /\ UNCHANGED <<authnSessions, now, tokenVars, callVars, authorizeVars, out>>

getRefreshTokenIntrospectionInfo(token) ==
  LET grantSession == GrantSessionByRefreshToken(token) IN
    IF grantSession = NoSession THEN FALSE
    ELSE IF IsRefreshSessionExpired(grantSession) THEN FALSE
    ELSE TRUE

tokenIntrospectionInfoByID(tokenID) ==
  LET grantSession == GrantSessionByTokenID(tokenID) IN
    IF grantSession = NoSession THEN FALSE
    ELSE IF HasLastTokenExpired(grantSession) THEN FALSE
    ELSE TRUE

\* IsActive of the introspection info.  A token of RefreshTokenLength
\* characters is looked up as a refresh token, any other one by token id.
TokenIntrospectionInfo(hasRefreshTokenLength, token) ==
  IF hasRefreshTokenLength
    THEN getRefreshTokenIntrospectionInfo(token)
    ELSE tokenIntrospectionInfoByID(token)

\* POST /introspect.  The response records the time of the call and the
\* grant session stored under the token id then.
Introspect(hasRefreshTokenLength, token) ==
  /\ token < nextToken
  /\ out' = [op |-> "introspect",
             hasRefreshTokenLength |-> hasRefreshTokenLength,
             token |-> token,
             IsActive |-> TokenIntrospectionInfo(hasRefreshTokenLength, token),
             session |-> IF hasRefreshTokenLength
                           THEN GrantSessionByRefreshToken(token)
                           ELSE GrantSessionByTokenID(token),
             at |-> now]
  /\ UNCHANGED <<authnSessions, grantSessions, now, tokenVars, callVars, authorizeVars,
                 nextToken, issued, rotated, rreq>>

\* The refresh_token grant alone.
NextRefresh ==
  \/ \E cl \in AuthorizingClients,
        scopes \in {{ScopeOpenID}, {ScopeOpenID, ScopeOfflineAccess}} :
       IssueGrant(cl, scopes)
  \/ \E q \in RefreshReqs, cl \in {"cid1", "cid2"}, token \in Tokens :
       StartRefreshTokenGrant(q, cl, token)
  \/ \E q \in RefreshReqs : FinishRefreshTokenGrant(q)
  \/ Tick

SpecRefresh == Init /\ [][NextRefresh]_vars

\* The refresh_token grant and introspection.
NextGrant ==
  \/ \E cl \in AuthorizingClients,
        scopes \in {{ScopeOpenID}, {ScopeOpenID, ScopeOfflineAccess}} :
       IssueGrant(cl, scopes)
  \/ \E q \in RefreshReqs, cl \in {"cid1", "cid2"}, token \in Tokens :
       StartRefreshTokenGrant(q, cl, token)
  \/ \E q \in RefreshReqs : FinishRefreshTokenGrant(q)
  \/ \E hasRefreshTokenLength \in BOOLEAN, token \in Tokens :
       Introspect(hasRefreshTokenLength, token)
  \/ Tick

SpecGrant == Init /\ [][NextGrant]_vars

(***************************************************************************)
(* Vocabulary of the claims about code redemption.                         *)
(***************************************************************************)
\* The request's goroutine has looked the code up and found no session.
LookupFoundNothing(r) ==
  req[r].g \notin {"none", "get"} /\ req[r].gsession = NoSession

\* The request's goroutine has loaded the session of the code.
LookupFoundSession(r) == req[r].gsession # NoSession

\* The handler has returned and the goroutine can take no further step.
Quiescent(r) ==
  /\ req[r].pc = "done"
  /\ req[r].g \in {"none", "done", "panicked", "send_notfound", "send_delerr", "send_ok"}

Redeemed(r) == req[r].resp = "ok"

GrantSessionOf(r) == {g \in grantSessions : g.ID = r}

(***************************************************************************)
(* The sequential fallback of code redemption: authenticate the client,    *)
(* then load and delete the session, then validate and save the grant      *)
(* session.  The result is <<response, authn sessions, grant sessions>>.   *)
(***************************************************************************)
SequentialRedemption(r, in, A, G) ==
  IF in.AuthorizationCode = EmptyCode THEN <<ErrorCodeInvalidRequest, A, G>>
  ELSE IF AuthnClient(in.ClientAuthnRequest) = NoClient
    THEN <<ErrorCodeInvalidClient, A, G>>
  ELSE IF ~\E s \in A : s.AuthorizationCode = in.AuthorizationCode
    THEN <<ErrorCodeInvalidGrant, A, G>>
  ELSE LET s == CHOOSE x \in A : x.AuthorizationCode = in.AuthorizationCode
           v == validateAuthorizationCodeGrantRequest(
                  in, AuthnClient(in.ClientAuthnRequest), s)
       IN IF v # "ok" THEN <<v, A \ {s}, G>>
          ELSE <<"ok", A \ {s}, G \cup {GrantSessionOfRequest(r, s)}>>

C2_MissingSessionIsInvalidGrant ==
  \A r \in Reqs :
    (req[r].pc = "done" /\ req[r].client # NoClient /\ LookupFoundNothing(r))
      => (req[r].resp = ErrorCodeInvalidGrant /\ GrantSessionOf(r) = {})

\* C3: when a code that was already redeemed is presented again, the grant
\* session created by its first redemption is no longer stored once the
\* replay attempt has been answered.
C3_ReplayRevokesGrantSession ==
  \A r1, r2 \in Reqs :
    (/\ r1 # r2
     /\ Redeemed(r1)
     /\ req[r2].in.AuthorizationCode = req[r1].in.AuthorizationCode
     /\ req[r2].pc = "done" /\ req[r2].client # NoClient
     /\ LookupFoundNothing(r2))
      => GrantSessionOf(r1) = {}

\* C4: in every step that writes the grant session of a successful
\* redemption, the AuthnSession of the redeemed code is already deleted.
C4_DeleteBeforeGrantSession ==
  [][\A r \in Reqs :
       (~Redeemed(r) /\ Redeemed(r)')
         => ~\E s \in authnSessions : s.ID = req'[r].session.ID]_vars

\* A code was redeemed: its session is gone and its grant session is stored.
C4_Witness ==
  \E r \in Reqs :
    /\ Redeemed(r)
    /\ GrantSessionOf(r) # {}
    /\ ~\E s \in authnSessions : s.AuthorizationCode = req[r].in.AuthorizationCode

\* C5: a redemption that runs alone ends with the response and the store
\* contents of the sequential fallback (authenticate, then load and delete),
\* whatever the schedule of its goroutine.
C5_EquivalentToSequential ==
  \A r \in Reqs :
    (/\ Quiescent(r)
     /\ \A q \in Reqs \ {r} : req[q].pc = "idle"
     /\ nextCode = snap.nextCode)
      => <<req[r].resp, authnSessions, grantSessions>> =
           SequentialRedemption(r, req[r].in, snap.authnSessions,
                                snap.grantSessions)

\* C6: a token request whose client authentication fails changes no store:
\* no step of its goroutine changes the authn-session store.
C6_NoSpeculativeWrite ==
  [][\A r \in Reqs :
       (/\ AuthnClient(req[r].in.ClientAuthnRequest) = NoClient
        /\ req[r].g = "delete" /\ req'[r].g # "delete")
         => authnSessions' = authnSessions]_vars

\* C10 as claimed: a redemption issues a token only if the authenticated
\* client is the session's client and the redirect_uri is the session's;
\* otherwise it fails with invalid_grant.
C10_MismatchIsInvalidGrant ==
  \A r \in Reqs :
    (req[r].pc = "done" /\ req[r].session # NoSession)
      => IF /\ req[r].client = req[r].session.ClientID
            /\ req[r].in.RedirectURI = req[r].session.RedirectURI
           THEN TRUE
           ELSE req[r].resp = ErrorCodeInvalidGrant

\* C10 as amended: a token is issued only if client and redirect_uri match
\* the session; a mismatch fails with invalid_grant, except that a client
\* that is not allowed the authorization_code grant gets unauthorized_client.
C10_MismatchIsRejected ==
  \A r \in Reqs :
    (req[r].pc = "done" /\ req[r].session # NoSession)
      => IF /\ req[r].client = req[r].session.ClientID
            /\ req[r].in.RedirectURI = req[r].session.RedirectURI
           THEN TRUE
           ELSE req[r].resp =
                  IF IsGrantTypeAllowed(req[r].client, GrantAuthorizationCode)
                    THEN ErrorCodeInvalidGrant
                    ELSE ErrorCodeUnauthorizedClient

\* A redemption by the session's client with another redirect_uri was
\* rejected with invalid_grant and wrote no grant session.
C10_Witness ==
  \E r \in Reqs :
    /\ req[r].pc = "done" /\ req[r].session # NoSession
    /\ req[r].client = req[r].session.ClientID
    /\ req[r].in.RedirectURI # req[r].session.RedirectURI
    /\ req[r].resp = ErrorCodeInvalidGrant
    /\ GrantSessionOf(r) = {}

(***************************************************************************)
(* Vocabulary of the claim about request_uri.                              *)
(***************************************************************************)
\* GET /authorize a went on with the pushed session: the flow is waiting
\* for the user or has ended with an authorization code.
Accepted(a) ==
  /\ areq[a].pc = "done"
  /\ areq[a].resp \in {InProgress, Success}

\* C7: a request_uri is single-use: of the GET /authorize requests that
\* present the same request_uri, one after the other or concurrently, at
\* most one is accepted (every other one yields invalid_request).
C7_RequestURISingleUse ==
  \A a, b \in AuthorizeReqs :
    (a # b /\ Accepted(a) /\ Accepted(b))
      => areq[a].in.RequestURI # areq[b].in.RequestURI

(***************************************************************************)
(* Vocabulary of the claims about grant sessions.                          *)
(***************************************************************************)
\* The refresh tokens issued for grant session id that a lookup still finds.
LiveRefreshTokens(id) ==
  {p[2] : p \in {x \in issued :
                   x[1] = id /\ GrantSessionByRefreshToken(x[2]) # NoSession}}

\* C8: a refresh token redeemed successfully is unusable afterwards: no
\* lookup finds it, and every redemption of it that started after the
\* rotation failed with invalid_grant; after any number of rotations
\* exactly one refresh token of the grant session is live.
C8_RotationLeavesOneLive ==
  /\ \A r \in rotated : GrantSessionByRefreshToken(r) = NoSession
  /\ \A q \in RefreshReqs :
       (rreq[q].stale /\ rreq[q].pc = "done")
         => rreq[q].resp = ErrorCodeInvalidGrant
  /\ \A p \in issued : Cardinality(LiveRefreshTokens(p[1])) = 1

\* Two rotations of one grant session have succeeded and a redemption of a
\* rotated token has been refused.
C8_Witness ==
  /\ Cardinality(rotated) >= 2
  /\ \E q \in RefreshReqs :
       rreq[q].stale /\ rreq[q].pc = "done"
         /\ rreq[q].resp = ErrorCodeInvalidGrant

\* C9: introspection reports an access token active iff a grant session is
\* stored under its token id, that session is not expired
\* (now <= expires_at), and last_token_issued_at + token_lifetime >= now.
C9_ValidIffSessionLiveAndTokenFresh ==
  (out.op = "introspect" /\ ~out.hasRefreshTokenLength)
    => (out.IsActive <=>
          /\ out.session # NoSession
          /\ out.at <= out.session.ExpiresAtTimestamp
          /\ out.session.LastTokenIssuedAtTimestamp
               + out.session.TokenLifetimeSecs >= out.at)

(***************************************************************************)
(* The expiry of an authorization code.  The first revision of the token   *)
(* handler compares the timestamps itself; the later revisions call a      *)
(* method of the session.  The validator is applied to requests, sessions  *)
(* and clock values drawn from bounded sets.                               *)
(***************************************************************************)
Scopes == {"", ScopeOpenID}

JsonError(code, description) ==
  [ErrorCode |-> code, ErrorDescription |-> description]

NoError == [ErrorCode |-> "none", ErrorDescription |-> ""]

ExpiredDescription == "the authorization code is expired"

\* models.TokenRequest and models.AuthnSession of the first revision.
ExpiryArgs ==
  [op : {"validateAuthorizationCodeGrantRequest"},
   req : [ClientId : ClientIDs, AuthorizationCode : 0..MaxCodes,
          RedirectUri : {"", "ru1"}, Scope : Scopes],
   session : [ClientId : {"cid1", "cid2"},
              AuthorizedAtTimestamp : 0..MaxTime]]

\* validateAuthorizationCodeGrantRequest, first revision.
validateAuthorizationCodeGrantRequestRev1(r, client, session) ==
  IF r.Scope # "" \/ r.AuthorizationCode = EmptyCode \/ r.RedirectUri = ""
    THEN JsonError(ErrorCodeInvalidRequest,
                   "invalid parameter for authorization code")
  ELSE IF ~IsGrantTypeAllowed(client, GrantAuthorizationCode)
    THEN JsonError(ErrorCodeInvalidRequest, "invalid grant type")
  ELSE IF session.AuthorizedAtTimestamp + AuthorizationCodeLifetimeSecs > now
    THEN JsonError(ErrorCodeInvalidRequest, ExpiredDescription)
  ELSE IF session.ClientId # r.ClientId
    THEN JsonError(ErrorCodeInvalidRequest,
                   "the authorization code was not issued to the client")
  ELSE NoError

InitExpiry ==
  /\ authnSessions = {}
  /\ grantSessions = {}
  /\ req = [r \in Reqs |-> IdleReq]
  /\ now \in 0..MaxTime
  /\ nextCode = 1
  /\ crashed = FALSE
  /\ snap = NoSnap
  /\ areq = [a \in AuthorizeReqs |-> IdleAuthorizeReq]
  /\ nextURI = 1
  /\ nextToken = 1
  /\ issued = {}
  /\ rotated = {}
  /\ out = NoResponse
  /\ rreq = [q \in RefreshReqs |-> IdleRefreshReq]
  /\ args \in ExpiryArgs
  /\ result = NoResult

\* handleAuthorizationCodeGrantTokenCreation validates the request of the
\* authenticated client against the session the code led to.
ValidateAuthorizationCodeGrant ==
  /\ result = NoResult
  /\ args.op = "validateAuthorizationCodeGrantRequest"
  /\ result' = [op |-> args.op,
                err |-> validateAuthorizationCodeGrantRequestRev1(
                          args.req, args.req.ClientId, args.session)]
  /\ UNCHANGED <<authnSessions, grantSessions, now, args>>
  /\ UNCHANGED <<tokenVars, authorizeVars, grantVars>>

NextExpiry == ValidateAuthorizationCodeGrant

SpecExpiry == InitExpiry /\ [][NextExpiry]_vars

\* The request reached the comparison of the timestamps: it is well formed
\* and its client may use the grant.
ReachedExpiryCheck ==
  /\ result.op = "validateAuthorizationCodeGrantRequest"
  /\ args.req.Scope = ""
  /\ args.req.AuthorizationCode # EmptyCode
  /\ args.req.RedirectUri # ""
  /\ IsGrantTypeAllowed(args.req.ClientId, GrantAuthorizationCode)

CodeAge == now - args.session.AuthorizedAtTimestamp

\* C11: a code redemption is rejected as expired iff the authorization code
\* is older than the authorization-code lifetime: a code within its lifetime
\* is never rejected as expired, and an older one always is.
C11_ExpiredIffOlderThanLifetime ==
  ReachedExpiryCheck =>
    ((result.err.ErrorDescription = ExpiredDescription)
       <=> (CodeAge > AuthorizationCodeLifetimeSecs))

(***************************************************************************)
(* PKCE at the token endpoint.  Code verifiers and code challenges are     *)
(* strings; len gives the length of the verifiers the check runs on.       *)
(***************************************************************************)
MinCodeVerifierLength == 43
MaxCodeVerifierLength == 128

CodeChallengeMethodPlain == "plain"
CodeChallengeMethodSHA256 == "S256"
ProfileOpenID == "openid"
ProfileFAPI2 == "fapi2"

CodeVerifiers == {"", "short", "verifier1", "verifier2", "long"}

len(codeVerifier) ==
  CASE codeVerifier = "" -> 0
    [] codeVerifier = "short" -> 13
    [] codeVerifier = "verifier1" -> 56
    [] codeVerifier = "verifier2" -> 43
    [] codeVerifier = "long" -> 129

\* hashBase64URLSHA256: the base64url encoding of the SHA-256 digest.  Two
\* verifiers have two digests, and no digest is the verifier it came from.
hashBase64URLSHA256(codeVerifier) ==
  CASE codeVerifier = "" -> "S256()"
    [] codeVerifier = "short" -> "S256(short)"
    [] codeVerifier = "verifier1" -> "S256(verifier1)"
    [] codeVerifier = "verifier2" -> "S256(verifier2)"
    [] codeVerifier = "long" -> "S256(long)"

CodeChallenges ==
  CodeVerifiers \cup {hashBase64URLSHA256(v) : v \in CodeVerifiers}

CodeChallengeMethods ==
  {"", CodeChallengeMethodPlain, CodeChallengeMethodSHA256, "S512"}

\* Mutant: every method compares the verifier itself.
isPKCEValidPlainOnly(codeVerifier, codeChallenge, codeChallengeMethod) ==
  CASE codeChallengeMethod = CodeChallengeMethodPlain ->
         codeChallenge = codeVerifier
    [] codeChallengeMethod = CodeChallengeMethodSHA256 ->
         codeChallenge = codeVerifier
    [] OTHER -> FALSE

isPKCEValid(codeVerifier, codeChallenge, codeChallengeMethod) ==
  CASE codeChallengeMethod = CodeChallengeMethodPlain ->
         codeChallenge = codeVerifier
    [] codeChallengeMethod = CodeChallengeMethodSHA256 ->
         codeChallenge = hashBase64URLSHA256(codeVerifier)
    [] OTHER -> FALSE

\* validatePkce; ctx is the configuration: PkceIsEnabled and Profile.
validatePkce(ctx, r, session) ==
  LET codeVerifierLengh == len(r.CodeVerifier)
      codeChallengeMethod ==
        IF ctx.Profile = ProfileFAPI2 THEN CodeChallengeMethodSHA256
        ELSE IF session.CodeChallengeMethod = ""
          THEN CodeChallengeMethodPlain
        ELSE session.CodeChallengeMethod
  IN IF /\ r.CodeVerifier # ""
        /\ \/ codeVerifierLengh < MinCodeVerifierLength
           \/ codeVerifierLengh > MaxCodeVerifierLength
       THEN ErrorCodeInvalidRequest
     ELSE IF /\ ctx.PkceIsEnabled
             /\ session.CodeChallenge # ""
             /\ \/ r.CodeVerifier = ""
                \/ ~isPKCEValid(r.CodeVerifier, session.CodeChallenge,
                                codeChallengeMethod)
       THEN ErrorCodeInvalidGrant
     ELSE "ok"

PkceArgs ==
  [op : {"validatePkce"},
   ctx : [PkceIsEnabled : BOOLEAN, Profile : {ProfileOpenID, ProfileFAPI2}],
   req : [CodeVerifier : CodeVerifiers],
   session : [CodeChallenge : CodeChallenges,
              CodeChallengeMethod : CodeChallengeMethods]]

InitPkce ==
  /\ authnSessions = {}
  /\ grantSessions = {}
  /\ req = [r \in Reqs |-> IdleReq]
  /\ now = 0
  /\ nextCode = 1
  /\ crashed = FALSE
  /\ snap = NoSnap
  /\ areq = [a \in AuthorizeReqs |-> IdleAuthorizeReq]
  /\ nextURI = 1
  /\ nextToken = 1
  /\ issued = {}
  /\ rotated = {}
  /\ out = NoResponse
  /\ rreq = [q \in RefreshReqs |-> IdleRefreshReq]
  /\ args \in PkceArgs
  /\ result = NoResult

\* The PKCE step of validateAuthorizationCodeGrantRequest.
ValidatePkce ==
  /\ result = NoResult
  /\ args.op = "validatePkce"
  /\ result' = [op |-> args.op,
                err |-> validatePkce(args.ctx, args.req, args.session)]
  /\ UNCHANGED <<authnSessions, grantSessions, now, args>>
  /\ UNCHANGED <<tokenVars, authorizeVars, grantVars>>

NextPkce == ValidatePkce

SpecPkce == InitPkce /\ [][NextPkce]_vars

\* The PKCE step ran on a session created with a code challenge.
PkceStepRan ==
  /\ result.op = "validatePkce"
  /\ args.session.CodeChallenge # ""

PkceAccepted == result.err = "ok"

\* The method the session was created with selects the comparison.
StoredMethodMatches ==
  IF args.session.CodeChallengeMethod = CodeChallengeMethodPlain
    THEN args.req.CodeVerifier = args.session.CodeChallenge
    ELSE hashBase64URLSHA256(args.req.CodeVerifier)
           = args.session.CodeChallenge

\* The method in force: S256 under FAPI 2.0, else the stored one, plain
\* when none is stored.
EffectiveMethodMatches ==
  LET m == IF args.ctx.Profile = ProfileFAPI2 THEN CodeChallengeMethodSHA256
           ELSE IF args.session.CodeChallengeMethod = ""
             THEN CodeChallengeMethodPlain
           ELSE args.session.CodeChallengeMethod
  IN \/ /\ m = CodeChallengeMethodPlain
        /\ args.req.CodeVerifier = args.session.CodeChallenge
     \/ /\ m = CodeChallengeMethodSHA256
        /\ hashBase64URLSHA256(args.req.CodeVerifier)
             = args.session.CodeChallenge

VerifierWellFormed ==
  /\ len(args.req.CodeVerifier) >= MinCodeVerifierLength
  /\ len(args.req.CodeVerifier) <= MaxCodeVerifierLength

\* C12 (as stated): for a session created with a code challenge the PKCE
\* step accepts iff S256(code_verifier) equals the stored challenge (iff
\* code_verifier equals the challenge when the method is plain), and a
\* missing verifier is rejected.
C12_PkceAcceptsIffChallengeMatches ==
  PkceStepRan =>
    /\ PkceAccepted <=> StoredMethodMatches
    /\ args.req.CodeVerifier = "" => ~PkceAccepted

\* C12 (amended): with PKCE enabled, for a session created with a code
\* challenge the PKCE step accepts iff the code verifier is 43 to 128
\* characters long and matches the challenge under the method in force; a
\* missing verifier is rejected.
C12_PkceAcceptsIffWellFormedAndMatches ==
  (PkceStepRan /\ args.ctx.PkceIsEnabled) =>
    /\ PkceAccepted <=> (VerifierWellFormed /\ EffectiveMethodMatches)
    /\ args.req.CodeVerifier = "" => ~PkceAccepted

\* A well-formed verifier whose digest is the challenge was accepted.
C12_Witness ==
  /\ PkceStepRan
  /\ args.ctx.PkceIsEnabled
  /\ args.session.CodeChallengeMethod = CodeChallengeMethodSHA256
  /\ args.req.CodeVerifier = "verifier1"
  /\ args.session.CodeChallenge = "S256(verifier1)"
  /\ PkceAccepted

(***************************************************************************)
(* The validation of authorization parameters at GET /authorize and at     *)
(* /par.  A URI is a sequence of characters, so that strings.HasPrefix is  *)
(* a comparison of sequences; a scope string is the sequence of its        *)
(* space-separated entries.                                                *)
(***************************************************************************)
MaxURILen == 2

URIChars == {"a", "b"}

URIs == UNION {[1..n -> URIChars] : n \in 0..MaxURILen}

EmptyURI == <<>>

HasPrefix(str, prefix) ==
  /\ Len(prefix) <= Len(str)
  /\ SubSeq(str, 1, Len(prefix)) = prefix

\* The registered redirect URIs of the clients under check.
RedirectURISets == {{<<"a", "b">>}, {<<"a">>, <<"b", "b">>}}

ScopeStrings == {<<>>, <<ScopeOpenID>>, <<ScopeOpenID, "invalid_scope">>}

SplitStringWithSpaces(str) == {str[i] : i \in 1..Len(str)}

ResponseTypeCode == "code"
ResponseTypeIDToken == "id_token"
ResponseTypes == {"", ResponseTypeCode, ResponseTypeIDToken}

ErrorCodeInvalidScope == "invalid_scope"

Nil == [ErrorCode |-> "nil"]

RedirectError(code, description, redirectUri, state) ==
  [ErrorCode |-> code, ErrorDescription |-> description,
   RedirectUri |-> redirectUri, State |-> state]

IsRedirectError(err) == "RedirectUri" \in DOMAIN err

\* Mutant: every redirect URI is allowed.
AllowAnyRedirectURI(client, redirectURI) == TRUE

\* Client.IsRedirectURIAllowed
IsRedirectURIAllowed(client, redirectURI) ==
  \E ru \in client.RedirectURIS : HasPrefix(redirectURI, ru)

AreScopesAllowed(client, requestedScopes) ==
  requestedScopes \subseteq client.Scopes

IsResponseTypeAllowed(client, responseType) ==
  responseType \in client.ResponseTypes

IsResponseModeAllowed(client, responseMode) ==
  responseMode \in client.ResponseModes

\* Mutant: the scopes are validated before the redirect URI.
validateAuthorizeParamsScopeFirst(client, r) ==
  IF ~AreScopesAllowed(client, SplitStringWithSpaces(r.Scope))
    THEN [err |-> RedirectError(ErrorCodeInvalidScope, "invalid scope",
                                r.RedirectUri, r.State),
          ran |-> <<"scope">>]
  ELSE IF ~IsRedirectURIAllowed(client, r.RedirectUri)
    THEN [err |-> JsonError(ErrorCodeInvalidRequest, "invalid redirect uri"),
          ran |-> <<"scope", "redirect_uri">>]
  ELSE [err |-> Nil, ran |-> <<"scope", "redirect_uri">>]

\* validateAuthorizeParams: err is the error returned, ran the checks made.
validateAuthorizeParams(client, r) ==
  IF ~IsRedirectURIAllowed(client, r.RedirectUri)
    THEN [err |-> JsonError(ErrorCodeInvalidRequest, "invalid redirect uri"),
          ran |-> <<"redirect_uri">>]
  ELSE IF client.PkceIsRequired /\ r.CodeChallenge = ""
    THEN [err |-> RedirectError(ErrorCodeInvalidRequest, "PKCE is required",
                                r.RedirectUri, r.State),
          ran |-> <<"redirect_uri", "pkce">>]
  ELSE IF ~AreScopesAllowed(client, SplitStringWithSpaces(r.Scope))
    THEN [err |-> RedirectError(ErrorCodeInvalidScope, "invalid scope",
                                r.RedirectUri, r.State),
          ran |-> <<"redirect_uri", "pkce", "scope">>]
  ELSE IF ~IsResponseTypeAllowed(client, r.ResponseType)
    THEN [err |-> RedirectError(ErrorCodeInvalidRequest,
                                "response type not allowed",
                                r.RedirectUri, r.State),
          ran |-> <<"redirect_uri", "pkce", "scope", "response_type">>]
  ELSE IF ~IsResponseModeAllowed(client, r.ResponseMode)
    THEN [err |-> RedirectError(ErrorCodeInvalidRequest,
                                "response mode not allowed",
                                r.RedirectUri, r.State),
          ran |-> <<"redirect_uri", "pkce", "scope", "response_type",
                    "response_mode">>]
  ELSE [err |-> Nil,
        ran |-> <<"redirect_uri", "pkce", "scope", "response_type",
                  "response_mode">>]

(***************************************************************************)
(* The validators of a pushed authorization request.                       *)
(***************************************************************************)
NoneAuthn == "none"
ClientSecretPostAuthn == "client_secret_post"

NewOAuthError(code, description) ==
  [ErrorCode |-> code, ErrorDescription |-> description]

validateNoneAuthnNotAllowed(ctx, params, client) ==
  IF client.AuthnMethod = NoneAuthn
    THEN NewOAuthError(ErrorCodeInvalidRequest,
                       "invalid client authentication method")
    ELSE Nil

validateCannotInformRequestURI(ctx, params, client) ==
  IF params.RequestURI # Empty
    THEN NewOAuthError(ErrorCodeInvalidRequest,
                       "request_uri is not allowed during PAR")
    ELSE Nil

\* The response type code requires the authorization_code grant.
ValidateCannotRequestCodeResponseType(ctx, params, client) ==
  IF /\ params.ResponseType = ResponseTypeCode
     /\ GrantAuthorizationCode \notin client.GrantTypes
    THEN NewOAuthError(ErrorCodeInvalidRequest, "invalid response_type")
    ELSE Nil

\* An implicit response type requires the implicit grant.
ValidateCannotRequestImplicitResponseType(ctx, params, client) ==
  IF /\ params.ResponseType = ResponseTypeIDToken
     /\ "implicit" \notin client.GrantTypes
    THEN NewOAuthError(ErrorCodeInvalidRequest, "invalid response_type")
    ELSE Nil

validateOpenIDRedirectURI(ctx, params, client) ==
  IF ctx.Profile # ProfileOpenID THEN Nil
  ELSE IF /\ params.RedirectURI # EmptyURI
          /\ ~IsRedirectURIAllowed(client, params.RedirectURI)
    THEN NewOAuthError(ErrorCodeInvalidRequest, "invalid redirect_uri")
  ELSE Nil

validateFAPI2RedirectURI(ctx, params, client) ==
  IF ctx.Profile # ProfileFAPI2 THEN Nil
  ELSE IF params.RedirectURI = EmptyURI
    THEN NewOAuthError(ErrorCodeInvalidRequest, "redirect_uri is required")
  ELSE Nil

validateScopes(ctx, params, client) ==
  IF /\ params.Scopes # <<>>
     /\ ctx.OpenIDScopeIsRequired
     /\ ScopeOpenID \notin SplitStringWithSpaces(params.Scopes)
    THEN NewOAuthError(ErrorCodeInvalidScope, "scope openid is required")
  ELSE IF /\ params.Scopes # <<>>
          /\ ~AreScopesAllowed(client, SplitStringWithSpaces(params.Scopes))
    THEN NewOAuthError(ErrorCodeInvalidScope, "invalid scope")
  ELSE Nil

validateResponseType(ctx, params, client) ==
  IF /\ params.ResponseType # ""
     /\ ~IsResponseTypeAllowed(client, params.ResponseType)
    THEN NewOAuthError(ErrorCodeInvalidRequest, "invalid response_type")
    ELSE Nil

\* The validators of validatePushedAuthorizationParams, in their order,
\* that read the parameters carried here.
PushedAuthorizationValidators ==
  <<"validateNoneAuthnNotAllowed", "validateCannotInformRequestURI",
    "ValidateCannotRequestCodeResponseType",
    "ValidateCannotRequestImplicitResponseType",
    "validateOpenIDRedirectURI", "validateFAPI2RedirectURI",
    "validateScopes", "validateResponseType">>

Validator(name, ctx, params, client) ==
  CASE name = "validateNoneAuthnNotAllowed" ->
         validateNoneAuthnNotAllowed(ctx, params, client)
    [] name = "validateCannotInformRequestURI" ->
         validateCannotInformRequestURI(ctx, params, client)
    [] name = "ValidateCannotRequestCodeResponseType" ->
         ValidateCannotRequestCodeResponseType(ctx, params, client)
    [] name = "ValidateCannotRequestImplicitResponseType" ->
         ValidateCannotRequestImplicitResponseType(ctx, params, client)
    [] name = "validateOpenIDRedirectURI" ->
         validateOpenIDRedirectURI(ctx, params, client)
    [] name = "validateFAPI2RedirectURI" ->
         validateFAPI2RedirectURI(ctx, params, client)
    [] name = "validateScopes" -> validateScopes(ctx, params, client)
    [] name = "validateResponseType" ->
         validateResponseType(ctx, params, client)

\* RunValidations: the first error wins; ran lists the validators called.
RECURSIVE RunValidationsFrom(_, _, _, _, _)
RunValidationsFrom(i, ctx, params, client, validators) ==
  IF i > Len(validators) THEN [err |-> Nil, ran |-> validators]
  ELSE LET err == Validator(validators[i], ctx, params, client)
       IN IF err # Nil
            THEN [err |-> err, ran |-> SubSeq(validators, 1, i)]
            ELSE RunValidationsFrom(i + 1, ctx, params, client, validators)

RunValidations(ctx, params, client, validators) ==
  RunValidationsFrom(1, ctx, params, client, validators)

validatePushedAuthorizationParams(ctx, params, client) ==
  RunValidations(ctx, params, client, PushedAuthorizationValidators)

AuthorizeArgs ==
  [op : {"validateAuthorizeParams"},
   client : [RedirectURIS : RedirectURISets, PkceIsRequired : BOOLEAN,
             Scopes : {{ScopeOpenID}}, ResponseTypes : {{}, {ResponseTypeCode}},
             ResponseModes : {{"query"}}],
   req : [RedirectUri : URIs, CodeChallenge : {"", "challenge"},
          Scope : ScopeStrings, ResponseType : ResponseTypes,
          ResponseMode : {"query", "fragment"}, State : {"state"}]]

PushedAuthorizationArgs ==
  [op : {"validatePushedAuthorizationParams"},
   ctx : [Profile : {ProfileOpenID, ProfileFAPI2},
          OpenIDScopeIsRequired : BOOLEAN],
   client : [AuthnMethod : {NoneAuthn, ClientSecretPostAuthn},
             RedirectURIS : RedirectURISets,
             GrantTypes : {{}, {GrantAuthorizationCode}},
             Scopes : {{ScopeOpenID}}, ResponseTypes : {{ResponseTypeCode}}],
   params : [RedirectURI : URIs, RequestURI : {Empty, 1},
             ResponseType : ResponseTypes, Scopes : ScopeStrings]]

InitValidation ==
  /\ authnSessions = {}
  /\ grantSessions = {}
  /\ req = [r \in Reqs |-> IdleReq]
  /\ now = 0
  /\ nextCode = 1
  /\ crashed = FALSE
  /\ snap = NoSnap
  /\ areq = [a \in AuthorizeReqs |-> IdleAuthorizeReq]
  /\ nextURI = 1
  /\ nextToken = 1
  /\ issued = {}
  /\ rotated = {}
  /\ out = NoResponse
  /\ rreq = [q \in RefreshReqs |-> IdleRefreshReq]
  /\ args \in AuthorizeArgs \cup PushedAuthorizationArgs
  /\ result = NoResult

\* initValidAuthenticationSession validates the parameters of GET /authorize.
ValidateAuthorizeParams ==
  /\ result = NoResult
  /\ args.op = "validateAuthorizeParams"
  /\ result' = [op |-> args.op] @@ validateAuthorizeParams(args.client, args.req)
  /\ UNCHANGED <<authnSessions, grantSessions, now, args>>
  /\ UNCHANGED <<tokenVars, authorizeVars, grantVars>>

\* validatePAR validates the parameters pushed to /par.
ValidatePushedAuthorizationParams ==
  /\ result = NoResult
  /\ args.op = "validatePushedAuthorizationParams"
  /\ result' = [op |-> args.op]
                 @@ validatePushedAuthorizationParams(args.ctx, args.params,
                                                      args.client)
  /\ UNCHANGED <<authnSessions, grantSessions, now, args>>
  /\ UNCHANGED <<tokenVars, authorizeVars, grantVars>>

NextValidation ==
  \/ ValidateAuthorizeParams
  \/ ValidatePushedAuthorizationParams

SpecValidation == InitValidation /\ [][NextValidation]_vars

\* Some registered redirect URI is a prefix of the URI.
HasRegisteredPrefix(registered, uri) ==
  \E r \in registered : HasPrefix(uri, r)

AuthorizeValidated == result.op = "validateAuthorizeParams"

PushedValidated == result.op = "validatePushedAuthorizationParams"

\* The redirect URI of the validated request has no registered prefix.
RedirectURINotRegistered ==
  \/ /\ AuthorizeValidated
     /\ ~HasRegisteredPrefix(args.client.RedirectURIS, args.req.RedirectUri)
  \/ /\ PushedValidated
     /\ ~HasRegisteredPrefix(args.client.RedirectURIS, args.params.RedirectURI)

\* C13 (as stated): an authorization request whose redirect_uri has no
\* registered redirect URI of the client as a prefix is rejected, and it is
\* rejected before any other validator of the chain runs.
C13_UnregisteredRedirectRejectedFirst ==
  RedirectURINotRegistered =>
    /\ result.err # Nil
    /\ Len(result.ran) = 1

\* C13 (amended): at GET /authorize a request whose redirect_uri has no
\* registered redirect URI of the client as a prefix is rejected by the
\* first check, before any other runs; at /par, under the OpenID profile, a
\* non-empty redirect_uri without such a prefix is rejected, by the redirect
\* validator at the latest.
C13_UnregisteredRedirectRejected ==
  /\ (AuthorizeValidated /\ RedirectURINotRegistered) =>
       /\ result.err = JsonError(ErrorCodeInvalidRequest, "invalid redirect uri")
       /\ result.ran = <<"redirect_uri">>
  /\ (/\ PushedValidated
      /\ RedirectURINotRegistered
      /\ args.ctx.Profile = ProfileOpenID
      /\ args.params.RedirectURI # EmptyURI) =>
       /\ result.err # Nil
       /\ result.ran[Len(result.ran)] \in
            {"validateNoneAuthnNotAllowed", "validateCannotInformRequestURI",
             "ValidateCannotRequestCodeResponseType",
             "ValidateCannotRequestImplicitResponseType",
             "validateOpenIDRedirectURI"}

\* An unregistered redirect URI met a request that was invalid in its scope
\* too, at GET /authorize: the redirect check alone ran.
C13_Witness ==
  /\ AuthorizeValidated
  /\ RedirectURINotRegistered
  /\ args.req.RedirectUri # EmptyURI
  /\ "invalid_scope" \in SplitStringWithSpaces(args.req.Scope)
  /\ result.ran = <<"redirect_uri">>

\* C14: validation of an authorization request never yields a redirect
\* error when the redirect_uri is not allowed for the client (the error is
\* returned directly); the errors for an invalid scope or response type,
\* raised when the redirect_uri is allowed, are redirect errors to that URI.
C14_NoRedirectToUnregisteredURI ==
  AuthorizeValidated =>
    /\ RedirectURINotRegistered =>
         (result.err # Nil /\ ~IsRedirectError(result.err))
    /\ (/\ ~RedirectURINotRegistered
        /\ result.err # Nil
        /\ result.ran[Len(result.ran)] \in {"scope", "response_type"}) =>
         /\ IsRedirectError(result.err)
         /\ result.err.RedirectUri = args.req.RedirectUri

\* A request with a registered redirect URI and an invalid scope got a
\* redirect error.
C14_Witness ==
  /\ AuthorizeValidated
  /\ ~RedirectURINotRegistered
  /\ result.err # Nil
  /\ result.err.ErrorCode = ErrorCodeInvalidScope
  /\ IsRedirectError(result.err)

(***************************************************************************)
(* Vocabulary of the claim about the lifetime of a pushed request.         *)
(***************************************************************************)
\* GET /authorize a is about to validate a pushed session that is older
\* than the PAR lifetime.
ValidatesExpiredPushedSession(a) ==
  /\ areq[a].pc = "validate"
  /\ areq'[a].pc # "validate"
  /\ now - areq[a].session.CreatedAtTimestamp > ParLifetimeSecs

\* C20: GET /authorize with a request_uri whose AuthnSession is older than
\* the PAR lifetime fails with invalid_request and never reaches the
\* authentication policy.
C20_ExpiredRequestURIIsInvalidRequest ==
  [][\A a \in AuthorizeReqs :
       ValidatesExpiredPushedSession(a) =>
         /\ areq'[a].pc = "done"
         /\ areq'[a].resp = ErrorCodeInvalidRequest]_vars

\* The client that pushed the request came back with nothing but the
\* request_uri, too late, and was answered invalid_request.
C20_Witness ==
  \E a \in AuthorizeReqs :
    /\ areq[a].pc = "done"
    /\ areq[a].session # NoSession
    /\ areq[a].in.ClientID = areq[a].session.ClientID
    /\ areq[a].in.RedirectURI = ""
    /\ now - areq[a].session.CreatedAtTimestamp > ParLifetimeSecs
    /\ areq[a].resp = ErrorCodeInvalidRequest

(***************************************************************************)
(* The authentication flow of a GET /authorize request without request_uri *)
(* and of its callbacks: InitAuthentication, ContinueAuthentication,       *)
(* authenticate and updateOrDeleteSession.  (The branch of                 *)
(* InitAuthentication for a request_uri is the one of SpecPAR.)            *)
(***************************************************************************)
NumPolicies == 2
StepsPerPolicy == 2
AuthenticationSessionTimeoutSecs == 1

PolicyIDs == 1..NumPolicies
NoPolicy == 0

\* A step id is <<policy, position>>.  The two final steps belong to no
\* policy; every policy is a chain of StepsPerPolicy steps that goes on to
\* the next step on success and to the failure step on failure.
FinishFlowSuccessfullyStep == <<0, 1>>
FinishFlowWithFailureStep == <<0, 2>>
NoStep == <<0, 0>>

FirstStep(policy) == <<policy, 1>>

NextStepIfSuccess(step) ==
  IF step[1] = 0 THEN NoStep
  ELSE IF step[2] < StepsPerPolicy THEN <<step[1], step[2] + 1>>
  ELSE FinishFlowSuccessfullyStep

NextStepIfFailure(step) ==
  IF step[1] = 0 THEN NoStep ELSE FinishFlowWithFailureStep

AuthnStatuses == {InProgress, Success, Failure}

\* What the AuthnFunc of each step of the running policy returns during one
\* call of authenticate.  The steps after the first one that does not
\* succeed are not called: their entry is fixed.
StepOutcomes ==
  {o \in [1..StepsPerPolicy -> AuthnStatuses] :
     \A k \in 1..StepsPerPolicy :
       o[k] # Success => \A j \in (k + 1)..StepsPerPolicy : o[j] = InProgress}

\* The configuration: what the availability function of each policy says.
PolicyConfigurations == [op : {"policies"}, setUp : [PolicyIDs -> BOOLEAN]]

\* GetPolicy: the first policy, in configured order, that is available.
GetPolicy(setUp) ==
  IF \E p \in PolicyIDs : setUp[p]
    THEN CHOOSE p \in PolicyIDs :
           setUp[p] /\ \A q \in PolicyIDs : q < p => ~setUp[q]
    ELSE NoPolicy

getNextStep(currentStepStatus, step) ==
  CASE currentStepStatus = Failure -> NextStepIfFailure(step)
    [] currentStepStatus = Success -> NextStepIfSuccess(step)
    [] OTHER -> NoStep

\* The loop of authenticate: the step the flow stops at and the steps whose
\* AuthnFunc was called, in order.
RECURSIVE runSteps(_, _, _)
runSteps(currentStep, outcome, ran) ==
  LET status == IF currentStep[1] = 0 THEN InProgress
                ELSE outcome[currentStep[2]]
      nextStep == getNextStep(status, currentStep)
  IN IF nextStep = NoStep
       THEN [currentStep |-> currentStep, ran |-> Append(ran, currentStep)]
       ELSE runSteps(nextStep, outcome, Append(ran, currentStep))

ResponseTypeSets ==
  {<<ResponseTypeCode>>, <<ResponseTypeIDToken>>,
   <<ResponseTypeCode, ResponseTypeIDToken>>}

ResponseContainsCode(responseType) ==
  \E i \in 1..Len(responseType) : responseType[i] = ResponseTypeCode

\* The registered client of the flow.
FlowClient ==
  [RedirectURIS |-> {<<"a">>}, PkceIsRequired |-> FALSE,
   Scopes |-> {ScopeOpenID}, ResponseTypes |-> ResponseTypeSets,
   ResponseModes |-> {"query"}]

FlowRequest(c, ru, rt) ==
  [ClientId |-> c, RequestUri |-> Empty, RedirectUri |-> ru,
   Scope |-> <<ScopeOpenID>>, ResponseType |-> rt, ResponseMode |-> "query",
   CodeChallenge |-> "", State |-> "state"]

FlowRequests ==
  {FlowRequest("cid1", <<"a">>, rt) : rt \in ResponseTypeSets}
    \cup {FlowRequest("cid1", <<"b">>, <<ResponseTypeCode>>),
          FlowRequest("cid0", <<"a">>, <<ResponseTypeCode>>)}

IdleFlowReq ==
  [pc |-> "idle", handler |-> "none", session |-> NoSession,
   expired |-> FALSE, ran |-> <<>>, currentStep |-> NoStep,
   resp |-> NoResponse]

\* models.NewSessionForAuthorizeRequest: a new session with a callback id.
NewSessionForAuthorizeRequest(a, in) ==
  [StepId |-> NoStep, ResponseType |-> in.ResponseType]
    @@ AuthnSession(MaxPushed + a, in.ClientId, in.RedirectUri, Empty, a,
                    Empty, now, now + AuthenticationSessionTimeoutSecs,
                    {ScopeOpenID})

AuthnSessionByCallbackID(callbackID) ==
  IF \E s \in authnSessions : s.CallbackID = callbackID
    THEN CHOOSE s \in authnSessions : s.CallbackID = callbackID
    ELSE NoSession

\* Mutant: a flow that failed keeps its session.
updateSessionAfterFailure(session, currentStep) ==
  IF /\ currentStep = FinishFlowSuccessfullyStep
     /\ ~ResponseContainsCode(session.ResponseType)
    THEN DeleteAuthnSession(session.ID)
    ELSE CreateOrUpdateAuthnSession([session EXCEPT !.StepId = currentStep])

\* Mutant: the step the flow stopped at is not stored.
updateSessionWithoutStep(session, currentStep) ==
  IF currentStep = FinishFlowWithFailureStep
    THEN DeleteAuthnSession(session.ID)
  ELSE IF /\ currentStep = FinishFlowSuccessfullyStep
          /\ ~ResponseContainsCode(session.ResponseType)
    THEN DeleteAuthnSession(session.ID)
  ELSE CreateOrUpdateAuthnSession(session)

\* Mutant: a flow that succeeded never keeps its session.
deleteSessionAfterSuccess(session, currentStep) ==
  IF currentStep = FinishFlowWithFailureStep
    THEN DeleteAuthnSession(session.ID)
  ELSE IF currentStep = FinishFlowSuccessfullyStep
    THEN DeleteAuthnSession(session.ID)
  ELSE CreateOrUpdateAuthnSession([session EXCEPT !.StepId = currentStep])

\* updateOrDeleteSession: the authn-session store it leaves.
updateOrDeleteSession(session, currentStep) ==
  IF currentStep = FinishFlowWithFailureStep
    THEN DeleteAuthnSession(session.ID)
  ELSE IF /\ currentStep = FinishFlowSuccessfullyStep
          /\ ~ResponseContainsCode(session.ResponseType)
    THEN DeleteAuthnSession(session.ID)
  ELSE CreateOrUpdateAuthnSession([session EXCEPT !.StepId = currentStep])

\* The final steps answer the user agent: the successful one generates the
\* authorization code when the response type asks for one and redirects
\* with it, the failing one redirects with the error.  A policy step that
\* is in progress has written its page.
FlowResponse(session, currentStep) ==
  CASE currentStep = FinishFlowSuccessfullyStep ->
         [op |-> "redirect", RedirectUri |-> session.RedirectURI,
          code |-> session.AuthorizationCode, error |-> ""]
    [] currentStep = FinishFlowWithFailureStep ->
         [op |-> "redirect", RedirectUri |-> session.RedirectURI,
          code |-> Empty, error |-> ErrorCodeAccessDenied]
    [] OTHER -> [op |-> "page"]

\* authenticate: run the steps from the session's step on, then update or
\* delete the session.
authenticate(a, handler, session, outcome) ==
  LET run == runSteps(session.StepId, outcome, <<>>)
      issuesCode == /\ run.currentStep = FinishFlowSuccessfullyStep
                    /\ ResponseContainsCode(session.ResponseType)
      finished == IF issuesCode
                    THEN [session EXCEPT !.AuthorizationCode = nextCode]
                    ELSE session
  IN /\ authnSessions' = updateOrDeleteSession(finished, run.currentStep)
     /\ nextCode' = IF issuesCode THEN nextCode + 1 ELSE nextCode
     /\ areq' = [areq EXCEPT ![a] =
                   [pc |-> "done", handler |-> handler, session |-> finished,
                    expired |-> IsExpired(session), ran |-> run.ran,
                    currentStep |-> run.currentStep,
                    resp |-> FlowResponse(finished, run.currentStep)]]

\* A handler that returns an error before any step runs.
ReturnError(a, handler, session, err) ==
  /\ areq' = [areq EXCEPT ![a] =
                [pc |-> "done", handler |-> handler, session |-> session,
                 expired |-> FALSE, ran |-> <<>>, currentStep |-> NoStep,
                 resp |-> [op |-> "error", err |-> err]]]
  /\ UNCHANGED <<authnSessions, nextCode>>

InitAuthn ==
  /\ authnSessions = {}
  /\ grantSessions = {}
  /\ req = [r \in Reqs |-> IdleReq]
  /\ now = 0
  /\ nextCode = 1
  /\ crashed = FALSE
  /\ snap = NoSnap
  /\ areq = [a \in AuthorizeReqs |-> IdleFlowReq]
  /\ nextURI = 1
  /\ nextToken = 1
  /\ issued = {}
  /\ rotated = {}
  /\ out = NoResponse
  /\ rreq = [q \in RefreshReqs |-> IdleRefreshReq]
  /\ args \in PolicyConfigurations
  /\ result = NoResult

\* InitAuthentication for a request without request_uri.
InitAuthentication(a, in, outcome) ==
  /\ areq[a].pc = "idle"
  /\ \A q \in AuthorizeReqs : q < a => areq[q].pc # "idle"
  /\ args.op = "policies"
  /\ in.RequestUri = Empty
  /\ IF in.ClientId \notin ClientIDs
       THEN ReturnError(a, "InitAuthentication", NoSession,
                        [Error |-> "entity not found"])
     ELSE LET v == validateAuthorizeParams(FlowClient, in)
              policy == GetPolicy(args.setUp)
              session == NewSessionForAuthorizeRequest(a, in)
          IN IF v.err # Nil
               THEN ReturnError(a, "InitAuthentication", NoSession, v.err)
             ELSE IF policy = NoPolicy
               THEN ReturnError(a, "InitAuthentication", session,
                                [Error |-> NoPolicyAvailable])
             ELSE authenticate(a, "InitAuthentication",
                               [session EXCEPT !.StepId = FirstStep(policy)],
                               outcome)
  /\ UNCHANGED <<grantSessions, now, req, crashed, snap, nextURI, grantVars,
                 callVars>>

\* ContinueAuthentication: the callback of a flow in progress.
ContinueAuthentication(a, callbackId, outcome) ==
  /\ areq[a].pc = "idle"
  /\ \A q \in AuthorizeReqs : q < a => areq[q].pc # "idle"
  /\ args.op = "policies"
  /\ LET session == AuthnSessionByCallbackID(callbackId)
     IN IF session = NoSession
          THEN ReturnError(a, "ContinueAuthentication", NoSession,
                           [Error |-> "entity not found"])
          ELSE authenticate(a, "ContinueAuthentication", session, outcome)
  /\ UNCHANGED <<grantSessions, now, req, crashed, snap, nextURI, grantVars,
                 callVars>>

NextAuthn ==
  \/ \E a \in AuthorizeReqs, in \in FlowRequests, outcome \in StepOutcomes :
       InitAuthentication(a, in, outcome)
  \/ \E a \in AuthorizeReqs, callbackId \in AuthorizeReqs,
        outcome \in StepOutcomes :
       ContinueAuthentication(a, callbackId, outcome)

SpecAuthn == InitAuthn /\ [][NextAuthn]_vars

\* The flow with the clock advancing between the requests.
NextAuthnClock ==
  \/ \E a \in AuthorizeReqs, in \in FlowRequests, outcome \in StepOutcomes :
       InitAuthentication(a, in, outcome)
  \/ \E a \in AuthorizeReqs, callbackId \in AuthorizeReqs,
        outcome \in StepOutcomes :
       ContinueAuthentication(a, callbackId, outcome)
  \/ Tick

SpecAuthnClock == InitAuthn /\ [][NextAuthnClock]_vars

(***************************************************************************)
(* Vocabulary of the claims about the authentication flow.                 *)
(***************************************************************************)
\* Request a was answered by handler.
Answered(a, handler) ==
  /\ areq[a].pc = "done"
  /\ areq[a].handler = handler

\* The step of this behaviour in which request a is handled.
Handles(a) ==
  /\ areq[a].pc = "idle"
  /\ areq'[a].pc = "done"

\* The stored sessions of the flow request a belongs to.
SessionsOfFlow(a, store) == {s \in store : s.ID = areq[a].session.ID}

SomePolicyAvailable == \E p \in PolicyIDs : args.setUp[p]

\* The policies that come before p in the configured order are unavailable.
IsFirstAvailable(p) ==
  /\ args.setUp[p]
  /\ \A q \in 1..(p - 1) : ~args.setUp[q]

\* C15: authorization initiation selects the first policy, in configured
\* order, whose SetUp returns true and runs only that policy; when no
\* policy's SetUp returns true the request fails with access_denied and no
\* AuthnSession is persisted.
C15_FirstAvailablePolicyOrAccessDenied ==
  \A a \in AuthorizeReqs :
    (Answered(a, "InitAuthentication") /\ areq[a].session # NoSession) =>
      IF SomePolicyAvailable
        THEN /\ areq[a].ran # <<>>
             /\ IsFirstAvailable(areq[a].ran[1][1])
             /\ \A i \in 1..Len(areq[a].ran) :
                  areq[a].ran[i][1] \in {0, areq[a].ran[1][1]}
        ELSE /\ areq[a].ran = <<>>
             /\ areq[a].resp.op = "error"
             /\ "ErrorCode" \in DOMAIN areq[a].resp.err
             /\ areq[a].resp.err.ErrorCode = ErrorCodeAccessDenied
             /\ SessionsOfFlow(a, authnSessions) = {}

\* C16: when the authentication policy ends in Failure the AuthnSession is
\* deleted: no AuthnSession of that flow remains in the store afterwards,
\* and the error is delivered to the client through the redirect.
C16_FailureDeletesSession ==
  \A a \in AuthorizeReqs :
    (areq[a].pc = "done" /\ areq[a].currentStep = FinishFlowWithFailureStep)
      => /\ SessionsOfFlow(a, authnSessions) = {}
         /\ areq[a].resp.op = "redirect"
         /\ areq[a].resp.error # ""
         /\ areq[a].resp.RedirectUri = areq[a].session.RedirectURI

\* A flow in progress was failed by its callback and its session is gone.
C16_Witness ==
  \E a, b \in AuthorizeReqs :
    /\ a # b
    /\ Answered(a, "InitAuthentication")
    /\ areq[a].currentStep[1] # 0
    /\ Answered(b, "ContinueAuthentication")
    /\ areq[b].session.ID = areq[a].session.ID
    /\ areq[b].currentStep = FinishFlowWithFailureStep
    /\ SessionsOfFlow(b, authnSessions) = {}

\* The policy is in progress at the end of the step that handles a.
SuspendsFlow(a) ==
  /\ Handles(a)
  /\ areq'[a].currentStep[1] # 0

\* The step that handles a is a callback of a stored session.
ResumesFlow(a) ==
  /\ Handles(a)
  /\ areq'[a].handler = "ContinueAuthentication"
  /\ areq'[a].ran # <<>>

\* C17: when the authentication policy returns InProgress exactly one
\* AuthnSession of the flow is persisted, with a non-empty callback_id, an
\* empty authorization_code and the step at which the policy suspended, so
\* that a callback resumes at that step; no authorization code exists while
\* a flow is in progress.
C17_InProgressKeepsSessionAtStep ==
  /\ [][\A a \in AuthorizeReqs :
          /\ SuspendsFlow(a) =>
               LET kept == {s \in authnSessions' :
                              s.ID = areq'[a].session.ID}
               IN /\ Cardinality(kept) = 1
                  /\ \A s \in kept :
                       /\ s.CallbackID # Empty
                       /\ s.AuthorizationCode = Empty
                       /\ s.StepId = areq'[a].ran[Len(areq'[a].ran)]
          /\ ResumesFlow(a) =>
               \A s \in authnSessions :
                 s.ID = areq'[a].session.ID => areq'[a].ran[1] = s.StepId]_vars
  /\ [](\A s \in authnSessions :
          s.StepId[1] # 0 => s.AuthorizationCode = Empty)

\* A policy was suspended at its second step and a callback resumed it
\* there.
C17_Witness ==
  \E a, b \in AuthorizeReqs :
    /\ Answered(a, "InitAuthentication")
    /\ areq[a].currentStep[1] # 0
    /\ areq[a].currentStep[2] = 2
    /\ Answered(b, "ContinueAuthentication")
    /\ areq[b].session.ID = areq[a].session.ID
    /\ areq[b].ran[1] = areq[a].currentStep
    /\ areq[b].currentStep = areq[a].currentStep
    /\ \E s \in authnSessions :
         s.ID = areq[a].session.ID /\ s.StepId = areq[a].currentStep

\* The policy ends in Success, for a response type with code, at the end of
\* the step that handles a.
SucceedsWithCode(a) ==
  /\ Handles(a)
  /\ areq'[a].currentStep = FinishFlowSuccessfullyStep
  /\ ResponseContainsCode(areq'[a].session.ResponseType)

\* C18: when the authentication policy ends in Success for a response type
\* containing code, an authorization code is generated, the AuthnSession
\* holding that code stays persisted, and the redirect to the client
\* carries exactly that code.
C18_SuccessKeepsSessionWithCode ==
  [][\A a \in AuthorizeReqs :
       SucceedsWithCode(a) =>
         LET code == areq'[a].session.AuthorizationCode
         IN /\ code # Empty
            /\ \A s \in authnSessions : s.AuthorizationCode # code
            /\ \E s \in authnSessions' :
                 /\ s.ID = areq'[a].session.ID
                 /\ s.AuthorizationCode = code
            /\ areq'[a].resp.op = "redirect"
            /\ areq'[a].resp.code = code]_vars

\* A flow for code id_token succeeded: its session is stored with the code
\* of the redirect.
C18_Witness ==
  \E a \in AuthorizeReqs :
    /\ areq[a].pc = "done"
    /\ areq[a].currentStep = FinishFlowSuccessfullyStep
    /\ areq[a].session.ResponseType = <<ResponseTypeCode, ResponseTypeIDToken>>
    /\ areq[a].resp.op = "redirect"
    /\ areq[a].resp.code # Empty
    /\ \E s \in authnSessions :
         /\ s.ID = areq[a].session.ID
         /\ s.AuthorizationCode = areq[a].resp.code

\* C19: a callback for an AuthnSession that has expired moves the flow to
\* Failed: the policy is not re-invoked and no authorization code is issued
\* for that session.
C19_ExpiredSessionFailsCallback ==
  \A a \in AuthorizeReqs :
    (Answered(a, "ContinueAuthentication") /\ areq[a].expired) =>
      /\ areq[a].ran = <<>>
      /\ ~(areq[a].resp.op = "redirect" /\ areq[a].resp.code # Empty)

(***************************************************************************)
(* Vocabulary of the claim about the client of a pushed request.           *)
(***************************************************************************)
\* GET /authorize a is about to validate a session that another client
\* pushed.
ValidatesOtherClientsSession(a) ==
  /\ areq[a].pc = "validate"
  /\ areq'[a].pc # "validate"
  /\ areq[a].session.ClientID # areq[a].in.ClientID

\* C21: GET /authorize with a request_uri whose AuthnSession was pushed by
\* a client other than the request's client_id is rejected with
\* invalid_request and never reaches the authentication policy.
C21_OtherClientsRequestURIIsInvalidRequest ==
  [][\A a \in AuthorizeReqs :
       ValidatesOtherClientsSession(a) =>
         /\ areq'[a].pc = "done"
         /\ areq'[a].resp = ErrorCodeInvalidRequest]_vars

(***************************************************************************)
(* POST /par: the client is authenticated, the pushed parameters (of the   *)
(* form, or of the request object when JAR applies) are validated, and a   *)
(* session is persisted under a new request_uri.                           *)
(***************************************************************************)
\* A request object is the JWT of the client: its signature and its claims.
NoRequestObject == [present |-> FALSE]

RequestObject(signed, clientID, requestURI, params) ==
  [present |-> TRUE, signed |-> signed,
   claims |-> [ClientID |-> clientID] @@ [params EXCEPT !.RequestURI = requestURI]]

PushedParams(redirectURI, requestURI) ==
  [RedirectURI |-> redirectURI, RequestURI |-> requestURI,
   ResponseType |-> ResponseTypeCode, Scopes |-> <<ScopeOpenID>>]

PushClient(authnMethod) ==
  [ID |-> "cid1", AuthnMethod |-> authnMethod,
   RedirectURIS |-> {<<"a">>}, GrantTypes |-> {GrantAuthorizationCode},
   Scopes |-> {ScopeOpenID}, ResponseTypes |-> {ResponseTypeCode},
   JarSignatureAlgorithm |-> ""]

\* The POST /par requests of the model: what the configuration is, which
\* client sends the request and whether its authentication succeeded, the
\* form parameters and the request object.
PushedAuthorizationRequests ==
  [ctx : {c \in [Profile : {ProfileOpenID}, OpenIDScopeIsRequired : {FALSE},
                 JarIsEnabled : BOOLEAN, JarIsRequired : BOOLEAN] :
            c.JarIsRequired => c.JarIsEnabled},
   client : {PushClient(m) : m \in {NoneAuthn, ClientSecretPostAuthn}},
   authenticated : BOOLEAN,
   params : {PushedParams(<<"a">>, Empty), PushedParams(<<"a">>, 1),
             PushedParams(<<"b">>, Empty)},
   RequestObject :
     {NoRequestObject} \cup
     {RequestObject(signed, c, uri, PushedParams(<<"a">>, Empty)) :
        signed \in BOOLEAN, c \in {"cid1", "cid2"}, uri \in {Empty, 1}}]

ErrorCodeInvalidRequestObject == "invalid_request_object"

\* Mutant: a signing algorithm registered by the client does not count.
ShouldInitAuthnSessionWithJarIgnoringClient(ctx, r, client) ==
  \/ ctx.JarIsRequired
  \/ ctx.JarIsEnabled /\ r.RequestObject # NoRequestObject

ShouldInitAuthnSessionWithJar(ctx, r, client) ==
  \/ ctx.JarIsRequired
  \/ ctx.JarIsEnabled /\ r.RequestObject # NoRequestObject
  \/ client.JarSignatureAlgorithm # ""

\* The request object is verified with the client's keys and decoded.
ExtractJarFromRequestObject(ctx, reqObject, client) ==
  IF reqObject.signed
    THEN [err |-> Nil, jar |-> reqObject.claims]
    ELSE [err |-> NewOAuthError(ErrorCodeInvalidRequestObject,
                                "invalid request object"),
          jar |-> Nil]

extractJarFromRequest(ctx, r, client) ==
  IF r.RequestObject = NoRequestObject
    THEN [err |-> NewOAuthError(ErrorCodeInvalidRequest,
                                "invalid request object"),
          jar |-> Nil]
    ELSE ExtractJarFromRequestObject(ctx, r.RequestObject, client)

validatePAR(ctx, r, client) ==
  validatePushedAuthorizationParams(ctx, r.params, client).err

\* Mutant: the request_uri of the request object is not looked at.
validateParWithJARIgnoringInnerRequestURI(ctx, r, jar, client) ==
  IF r.params.RequestURI # Empty
    THEN NewOAuthError(ErrorCodeInvalidRequest,
                       "request_uri is not allowed during PAR")
  ELSE IF jar.ClientID # client.ID
    THEN NewOAuthError(ErrorCodeInvalidRequestObject, "invalid client_id")
  ELSE validatePushedAuthorizationParams(
         ctx, [jar EXCEPT !.RequestURI = Empty], client).err

validateParWithJAR(ctx, r, jar, client) ==
  IF r.params.RequestURI # Empty
    THEN NewOAuthError(ErrorCodeInvalidRequest,
                       "request_uri is not allowed during PAR")
  ELSE IF jar.ClientID # client.ID
    THEN NewOAuthError(ErrorCodeInvalidRequestObject, "invalid client_id")
  ELSE IF jar.RequestURI # Empty
    THEN NewOAuthError(ErrorCodeInvalidRequestObject,
                       "request_uri is not allowed inside JAR")
  ELSE validatePushedAuthorizationParams(ctx, jar, client).err

\* NewSession: the session of the client with the validated parameters.
NewSession(params, client) ==
  AuthnSession(nextURI, client.ID, params.RedirectURI, Empty, Empty, Empty,
               now, Empty, {})

initValidSimpleAuthnSession(ctx, r, client) ==
  LET err == validatePAR(ctx, r, client) IN
    IF err # Nil THEN [err |-> err, session |-> NoSession]
    ELSE [err |-> Nil, session |-> NewSession(r.params, client)]

initValidAuthnSessionWithJar(ctx, r, client) ==
  LET e == extractJarFromRequest(ctx, r, client) IN
    IF e.err # Nil THEN [err |-> e.err, session |-> NoSession]
    ELSE LET err == validateParWithJAR(ctx, r, e.jar, client) IN
      IF err # Nil THEN [err |-> err, session |-> NoSession]
      ELSE [err |-> Nil, session |-> NewSession(e.jar, client)]

initValidPushedAuthnSession(ctx, r, client) ==
  IF ShouldInitAuthnSessionWithJar(ctx, r, client)
    THEN initValidAuthnSessionWithJar(ctx, r, client)
    ELSE initValidSimpleAuthnSession(ctx, r, client)

\* Mutant: the pushed session expires when it is created.
PushWithoutLifetime(session, parLifetimeSecs) ==
  [session EXCEPT !.RequestURI = nextURI, !.ExpiresAtTimestamp = now]

\* AuthnSession.Push: a new request_uri and the expiry of the session.
Push(session, parLifetimeSecs) ==
  [session EXCEPT !.RequestURI = nextURI,
                  !.ExpiresAtTimestamp = now + parLifetimeSecs]

InitPush ==
  /\ authnSessions = {}
  /\ grantSessions = {}
  /\ req = [r \in Reqs |-> IdleReq]
  /\ now = 0
  /\ nextCode = 1
  /\ crashed = FALSE
  /\ snap = NoSnap
  /\ areq = [a \in AuthorizeReqs |-> IdleAuthorizeReq]
  /\ nextURI = 1
  /\ nextToken = 1
  /\ issued = {}
  /\ rotated = {}
  /\ out = NoResponse
  /\ rreq = [q \in RefreshReqs |-> IdleRefreshReq]
  /\ args = NoArgs
  /\ result = NoResult

\* pushAuthorization, the handler of POST /par.
pushAuthorization(in) ==
  /\ nextURI <= MaxPushed
  /\ args' = [op |-> "pushAuthorization", ctx |-> in.ctx,
              req |-> [params |-> in.params,
                       RequestObject |-> in.RequestObject],
              client |-> in.client, authenticated |-> in.authenticated]
  /\ IF ~in.authenticated
       THEN /\ result' = [op |-> "pushAuthorization",
                          err |-> NewOAuthError(ErrorCodeInvalidClient,
                                                "client not authenticated"),
                          RequestURI |-> Empty, ExpiresIn |-> 0]
            /\ UNCHANGED <<authnSessions, nextURI>>
       ELSE LET s == initValidPushedAuthnSession(in.ctx, args'.req, in.client)
            IN IF s.err # Nil
                 THEN /\ result' = [op |-> "pushAuthorization", err |-> s.err,
                                    RequestURI |-> Empty, ExpiresIn |-> 0]
                      /\ UNCHANGED <<authnSessions, nextURI>>
                 ELSE LET session == Push(s.session, ParLifetimeSecs) IN
                      /\ authnSessions' = CreateOrUpdateAuthnSession(session)
                      /\ nextURI' = nextURI + 1
                      /\ result' = [op |-> "pushAuthorization", err |-> Nil,
                                    RequestURI |-> session.RequestURI,
                                    ExpiresIn |-> ParLifetimeSecs]
  /\ UNCHANGED <<grantSessions, now, tokenVars, areq, grantVars>>

NextPush ==
  \/ \E in \in PushedAuthorizationRequests : pushAuthorization(in)
  \/ Tick

SpecPush == InitPush /\ [][NextPush]_vars

(***************************************************************************)
(* Vocabulary of the claims about POST /par.                               *)
(***************************************************************************)
\* POST /par was answered in this step.
Pushes == args' # args \/ result' # result \/ authnSessions' # authnSessions

\* The request answered in this step was processed with its request
\* object: JAR applies to it and the object is the client's.
RequestObjectRead ==
  /\ args'.authenticated
  /\ ShouldInitAuthnSessionWithJar(args'.ctx, args'.req, args'.client)
  /\ args'.req.RequestObject # NoRequestObject
  /\ args'.req.RequestObject.signed

\* The request answered in this step got as far as the validation of its
\* parameters: the client is authenticated and, when JAR applies, the
\* request object could be extracted.
ParametersValidated ==
  /\ args'.authenticated
  /\ ShouldInitAuthnSessionWithJar(args'.ctx, args'.req, args'.client) =>
       extractJarFromRequest(args'.ctx, args'.req, args'.client).err = Nil

\* C22: a POST /par request that carries a request_uri, as a form
\* parameter or inside the request object that is processed, is rejected
\* and persists no AuthnSession; the validation of the parameters answers
\* the form parameter with invalid_request.
C22_RequestURIIsNotAllowedInPAR ==
  [][(Pushes /\ args'.op = "pushAuthorization") =>
       /\ args'.req.params.RequestURI # Empty =>
            /\ result'.err # Nil
            /\ ParametersValidated =>
                 result'.err.ErrorCode = ErrorCodeInvalidRequest
            /\ authnSessions' = authnSessions
       /\ (RequestObjectRead
           /\ args'.req.RequestObject.claims.RequestURI # Empty) =>
            /\ result'.err # Nil
            /\ authnSessions' = authnSessions]_vars

\* An authenticated client was refused a signed request object of its own
\* that carries a request_uri, and nothing was persisted.
C22_Witness ==
  /\ args.op = "pushAuthorization"
  /\ args.authenticated
  /\ args.client.AuthnMethod = ClientSecretPostAuthn
  /\ args.req.params.RequestURI = Empty
  /\ args.req.RequestObject # NoRequestObject
  /\ args.req.RequestObject.signed
  /\ args.req.RequestObject.claims.ClientID = args.client.ID
  /\ args.req.RequestObject.claims.RequestURI # Empty
  /\ args.ctx.JarIsEnabled
  /\ result.err.ErrorCode = ErrorCodeInvalidRequestObject
  /\ authnSessions = {}

\* C23: a successful POST /par persists exactly one AuthnSession, whose
\* request_uri is the one returned to the client and whose expires_at is
\* now + par_lifetime; the sessions stored before stay as they were.
C23_PushPersistsOneSession ==
  [][(Pushes /\ args'.op = "pushAuthorization" /\ result'.err = Nil) =>
       /\ authnSessions \subseteq authnSessions'
       /\ Cardinality(authnSessions' \ authnSessions) = 1
       /\ \A s \in authnSessions' \ authnSessions :
            /\ s.RequestURI # Empty
            /\ s.RequestURI = result'.RequestURI
            /\ s.ExpiresAtTimestamp = now + ParLifetimeSecs
            /\ \A t \in authnSessions : t.RequestURI # s.RequestURI]_vars

\* After the clock advanced, a request was pushed with success and its
\* session is the only one stored.
C23_Witness ==
  /\ args.op = "pushAuthorization"
  /\ result.err = Nil
  /\ result.RequestURI # Empty
  /\ Cardinality(authnSessions) = 1
  /\ \E s \in authnSessions :
       /\ s.RequestURI = result.RequestURI
       /\ s.CreatedAtTimestamp > 0
       /\ s.ExpiresAtTimestamp = s.CreatedAtTimestamp + ParLifetimeSecs

(***************************************************************************)
(* AuthorizationParameters.Merge.  A field's value carries its Go kind:    *)
(* a string, a pointer (nil or not) or a slice (nil, or its elements).     *)
(***************************************************************************)
String(s) == [kind |-> "string", s |-> s]
NilPointer == [kind |-> "ptr", isNil |-> TRUE]
Pointer(v) == [kind |-> "ptr", isNil |-> FALSE, v |-> v]
NilSlice == [kind |-> "slice", isNil |-> TRUE]
Slice(elems) == [kind |-> "slice", isNil |-> FALSE, elems |-> elems]

\* reflect.Value.String: the string of a value of kind String, and
\* "<T Value>" for a value of any other kind.
ReflectString(value) ==
  IF value.kind = "string" THEN value.s ELSE "<T Value>"

\* reflect.Value.IsNil, called with pointers and slices.
ReflectIsNil(value) == value.isNil

nonEmptyOrDefault(s1, s2) == IF ReflectString(s1) = "" THEN s2 ELSE s1

nonNilOrDefault(s1, s2) == IF ReflectIsNil(s1) THEN s2 ELSE s1

\* The fields of AuthorizationParameters carried here: two that Merge
\* leaves at their zero value, two string fields, and the three structured
\* ones.
AuthorizationParameterFields ==
  {"RequestURI", "RequestObject", "RedirectURI", "State", "MaxAuthnAgeSecs",
   "Claims", "AuthorizationDetails"}

AuthorizationParameters ==
  [RequestURI : {String(""), String("urn:1")},
   RequestObject : {String("")},
   RedirectURI : {String(""), String("https:example1.com"),
                  String("https:example2.com")},
   State : {String(""), String("random_state")},
   MaxAuthnAgeSecs : {NilPointer, Pointer(0), Pointer(1)},
   Claims : {NilPointer, Pointer("claims")},
   AuthorizationDetails : {NilSlice, Slice(<<>>), Slice(<<"detail">>)}]

Merge(insideParams, outsideParams) ==
  [RequestURI |-> String(""),
   RequestObject |-> String(""),
   RedirectURI |->
     nonEmptyOrDefault(insideParams.RedirectURI, outsideParams.RedirectURI),
   State |-> nonEmptyOrDefault(insideParams.State, outsideParams.State),
   MaxAuthnAgeSecs |->
     nonEmptyOrDefault(insideParams.MaxAuthnAgeSecs,
                       outsideParams.MaxAuthnAgeSecs),
   Claims |-> nonNilOrDefault(insideParams.Claims, outsideParams.Claims),
   AuthorizationDetails |->
     nonNilOrDefault(insideParams.AuthorizationDetails,
                     outsideParams.AuthorizationDetails)]

MergeArgs ==
  [op : {"Merge"}, insideParams : AuthorizationParameters,
   outsideParams : AuthorizationParameters]

InitMerge ==
  /\ authnSessions = {}
  /\ grantSessions = {}
  /\ req = [r \in Reqs |-> IdleReq]
  /\ now = 0
  /\ nextCode = 1
  /\ crashed = FALSE
  /\ snap = NoSnap
  /\ areq = [a \in AuthorizeReqs |-> IdleAuthorizeReq]
  /\ nextURI = 1
  /\ nextToken = 1
  /\ issued = {}
  /\ rotated = {}
  /\ out = NoResponse
  /\ rreq = [q \in RefreshReqs |-> IdleRefreshReq]
  /\ args \in MergeArgs
  /\ result = NoResult

\* insideParams.Merge(outsideParams) is called.
MergeParams ==
  /\ result = NoResult
  /\ args.op = "Merge"
  /\ result' = [op |-> args.op,
                params |-> Merge(args.insideParams, args.outsideParams)]
  /\ UNCHANGED <<authnSessions, grantSessions, now, args>>
  /\ UNCHANGED <<tokenVars, authorizeVars, grantVars>>

NextMerge == MergeParams

SpecMerge == InitMerge /\ [][NextMerge]_vars

(***************************************************************************)
(* Vocabulary of the claim about Merge.                                    *)
(***************************************************************************)
\* The value is non-empty: a string other than "", a pointer or a slice
\* other than nil.
NonEmpty(value) ==
  IF value.kind = "string" THEN value.s # "" ELSE ~value.isNil

\* C24: for every field f of the authorization parameters,
\* inner.Merge(outer).f is inner.f when inner.f is non-empty (non-nil for
\* claims, authorization_details and max_age) and outer.f otherwise.
C24_MergeInnerWinsFieldByField ==
  result.op = "Merge" =>
    \A f \in AuthorizationParameterFields :
      result.params[f] = IF NonEmpty(args.insideParams[f])
                           THEN args.insideParams[f]
                           ELSE args.outsideParams[f]

(***************************************************************************)
(* authn.Client: the client of a request is identified (getClientID),      *)
(* loaded and authenticated with the method it is registered with.  A      *)
(* client assertion is a JWT: whether it parses with the accepted          *)
(* algorithms, its kid header, the key that signed it, and its claims.     *)
(***************************************************************************)
Missing == [kind |-> "missing"]
Number == [kind |-> "number"]

NoAssertion == [present |-> FALSE]

Assertion(parses, kid, key, iss, sub, audOK, timeOK) ==
  [present |-> TRUE, parses |-> parses, kid |-> kid, key |-> key,
   claims |-> [iss |-> iss, sub |-> sub, audOK |-> audOK, timeOK |-> timeOK]]

NoBasicAuth == [ok |-> FALSE, username |-> "", password |-> ""]
BasicAuth(username, password) ==
  [ok |-> TRUE, username |-> username, password |-> password]

NoCertificate == [present |-> FALSE]
Certificate(subject, dnsNames, ipAddresses, raw, publicKey) ==
  [present |-> TRUE, Subject |-> subject, DNSNames |-> dnsNames,
   IPAddresses |-> ipAddresses, Raw |-> raw, PublicKey |-> publicKey]

ClientAuthnNone == "none"
ClientAuthnSecretPost == "client_secret_post"
ClientAuthnSecretBasic == "client_secret_basic"
ClientAuthnPrivateKeyJWT == "private_key_jwt"
ClientAuthnSecretJWT == "client_secret_jwt"
ClientAuthnSelfSignedTLS == "self_signed_tls_client_auth"
ClientAuthnTLS == "tls_client_auth"

ClientAuthnMethods ==
  {ClientAuthnNone, ClientAuthnSecretPost, ClientAuthnSecretBasic,
   ClientAuthnPrivateKeyJWT, ClientAuthnSecretJWT, ClientAuthnSelfSignedTLS,
   ClientAuthnTLS, "unknown_method"}

AssertionTypeJWTBearer ==
  "urn:ietf:params:oauth:client-assertion-type:jwt-bearer"

\* bcrypt.GenerateFromPassword and sha256 of a certificate: one-way, and
\* equal only for equal inputs.
bcryptHash(password) == <<"bcrypt", password>>
hashSHA256(raw) == <<"sha256", raw>>

\* The client registered as cid1, with the given authentication method and
\* tls_client_auth attributes; no other client is registered.
RegisteredClient(authnMethod, dn, sanDNS, sanIP, jwksAvailable) ==
  [ID |-> "cid1", AuthnMethod |-> authnMethod,
   HashedSecret |-> bcryptHash("s1"), Secret |-> "s1",
   PublicKeys |-> [kid1 |-> "k1"],
   JWKS |-> {[CertificateThumbprintSHA256 |-> hashSHA256("raw1"),
              Key |-> "k1"]},
   JWKSAvailable |-> jwksAvailable,
   TLSSubjectDistinguishedName |-> dn,
   TLSSubjectAlternativeName |-> sanDNS,
   TLSSubjectAlternativeNameIp |-> sanIP]

RegisteredClients ==
  {RegisteredClient(m, "", "", "", TRUE) :
     m \in ClientAuthnMethods \ {ClientAuthnTLS}}
  \cup {RegisteredClient(ClientAuthnSelfSignedTLS, "", "", "", FALSE)}
  \cup {RegisteredClient(ClientAuthnTLS, dn, dns, ip, TRUE) :
          dn \in {"", "CN=cid1"}, dns \in {"", "cid1.example"},
          ip \in {"", "10.0.0.1"}}

NewError(code, description) ==
  [ErrorCode |-> code, ErrorDescription |-> description]

allEquals(values) ==
  IF Len(values) = 0 THEN TRUE
  ELSE \A i \in 1..Len(values) : values[i] = values[1]

getClientIDFromAssertion(ctx, assertion) ==
  IF ~assertion.parses THEN [clientID |-> "", ok |-> FALSE]
  ELSE IF assertion.claims.iss.kind # "string"
    THEN [clientID |-> "", ok |-> FALSE]
  ELSE [clientID |-> assertion.claims.iss.s, ok |-> TRUE]

appendClientIDFromAssertion(ctx, clientIDs, r) ==
  IF r.ClientAssertion = NoAssertion
    THEN [clientIDs |-> clientIDs, ok |-> TRUE]
  ELSE LET a == getClientIDFromAssertion(ctx, r.ClientAssertion) IN
    IF ~a.ok THEN [clientIDs |-> <<>>, ok |-> FALSE]
    ELSE [clientIDs |-> Append(clientIDs, a.clientID), ok |-> TRUE]

getClientID(ctx, r) ==
  LET fromForm == IF r.ClientID # "" THEN <<r.ClientID>> ELSE <<>>
      basicClientID == ctx.BasicAuth.username
      fromBasic == IF basicClientID # ""
                     THEN Append(fromForm, basicClientID) ELSE fromForm
      a == appendClientIDFromAssertion(ctx, fromBasic, r)
  IN IF ~a.ok THEN [clientID |-> "", ok |-> FALSE]
     ELSE IF Len(a.clientIDs) = 0 \/ ~allEquals(a.clientIDs)
       THEN [clientID |-> "", ok |-> FALSE]
     ELSE [clientID |-> a.clientIDs[1], ok |-> TRUE]

authenticateWithNoneAuthn(ctx, client, r) ==
  IF client.ID # r.ClientID
    THEN NewError(ErrorCodeInvalidClient, "invalid client")
    ELSE Nil

validateSecret(ctx, client, clientSecret) ==
  IF client.HashedSecret # bcryptHash(clientSecret)
    THEN NewError(ErrorCodeInvalidClient, "invalid secret")
    ELSE Nil

authenticateWithClientSecretPost(ctx, client, r) ==
  IF client.ID # r.ClientID \/ r.ClientSecret = ""
    THEN NewError(ErrorCodeInvalidClient, "invalid client")
    ELSE validateSecret(ctx, client, r.ClientSecret)

authenticateWithClientSecretBasic(ctx, client, r) ==
  IF ~ctx.BasicAuth.ok \/ client.ID # ctx.BasicAuth.username
    THEN NewError(ErrorCodeInvalidClient, "invalid client")
    ELSE validateSecret(ctx, client, ctx.BasicAuth.password)

areAssertionClaimsValid(ctx, client, claims, maxLifetimeSecs) ==
  IF ~claims.timeOK
    THEN NewError(ErrorCodeInvalidClient,
                  "invalid time claim in the assertion")
  ELSE IF \/ claims.iss.s # client.ID
          \/ claims.sub # client.ID
          \/ ~claims.audOK
    THEN NewError(ErrorCodeInvalidClient, "invalid assertion")
  ELSE Nil

authenticateWithPrivateKeyJWT(ctx, client, r) ==
  IF r.ClientAssertionType # AssertionTypeJWTBearer
    THEN NewError(ErrorCodeInvalidRequest, "invalid assertion_type")
  ELSE IF r.ClientAssertion = NoAssertion \/ ~r.ClientAssertion.parses
    THEN NewError(ErrorCodeInvalidClient, "invalid assertion signature")
  ELSE IF r.ClientAssertion.kid = ""
    THEN NewError(ErrorCodeInvalidClient,
                  "invalid kid header in the assertion")
  ELSE IF \/ ~client.JWKSAvailable
          \/ r.ClientAssertion.kid \notin DOMAIN client.PublicKeys
    THEN NewError(ErrorCodeInvalidClient, "invalid key ID")
  ELSE IF \/ r.ClientAssertion.key # client.PublicKeys[r.ClientAssertion.kid]
          \/ r.ClientAssertion.claims.iss.kind # "string"
    THEN NewError(ErrorCodeInvalidClient, "invalid assertion signature")
  ELSE areAssertionClaimsValid(ctx, client, r.ClientAssertion.claims, 0)

authenticateWithClientSecretJWT(ctx, client, r) ==
  IF r.ClientAssertionType # AssertionTypeJWTBearer
    THEN NewError(ErrorCodeInvalidRequest, "invalid assertion_type")
  ELSE IF r.ClientAssertion = NoAssertion \/ ~r.ClientAssertion.parses
    THEN NewError(ErrorCodeInvalidClient, "invalid assertion")
  ELSE IF \/ r.ClientAssertion.key # client.Secret
          \/ r.ClientAssertion.claims.iss.kind # "string"
    THEN NewError(ErrorCodeInvalidClient, "invalid assertion")
  ELSE areAssertionClaimsValid(ctx, client, r.ClientAssertion.claims, 0)

authenticateWithSelfSignedTLSCertificate(ctx, client, r) ==
  IF client.ID # r.ClientID
    THEN NewError(ErrorCodeInvalidClient, "invalid client")
  ELSE IF ~ctx.ClientCertificate.present
    THEN NewError(ErrorCodeInvalidClient, "client certificate not informed")
  ELSE IF ~client.JWKSAvailable
    THEN NewError(ErrorCodeInternalError, "could not load the client JWKS")
  ELSE IF \A key \in client.JWKS :
            key.CertificateThumbprintSHA256
              # hashSHA256(ctx.ClientCertificate.Raw)
    THEN NewError(ErrorCodeInvalidClient,
                  "could not find a JWK matching the client certificate")
  ELSE IF \A key \in client.JWKS :
            key.CertificateThumbprintSHA256
                = hashSHA256(ctx.ClientCertificate.Raw)
              => key.Key # ctx.ClientCertificate.PublicKey
    THEN NewError(ErrorCodeInvalidClient, "the public keys differ")
  ELSE Nil

authenticateWithTLSCertificate(ctx, client, r) ==
  IF client.ID # r.ClientID
    THEN NewError(ErrorCodeInvalidClient, "invalid client")
  ELSE IF ~ctx.ClientCertificate.present
    THEN NewError(ErrorCodeInvalidClient, "client certificate not informed")
  ELSE IF /\ client.TLSSubjectDistinguishedName # ""
          /\ ctx.ClientCertificate.Subject
              # client.TLSSubjectDistinguishedName
    THEN NewError(ErrorCodeInvalidClient, "invalid distinguished name")
  ELSE IF /\ client.TLSSubjectAlternativeName # ""
          /\ client.TLSSubjectAlternativeName
              \notin ctx.ClientCertificate.DNSNames
    THEN NewError(ErrorCodeInvalidClient, "invalid alternative name")
  ELSE Nil

authenticateClient(ctx, client, r) ==
  CASE client.AuthnMethod = ClientAuthnNone ->
         authenticateWithNoneAuthn(ctx, client, r)
    [] client.AuthnMethod = ClientAuthnSecretPost ->
         authenticateWithClientSecretPost(ctx, client, r)
    [] client.AuthnMethod = ClientAuthnSecretBasic ->
         authenticateWithClientSecretBasic(ctx, client, r)
    [] client.AuthnMethod = ClientAuthnPrivateKeyJWT ->
         authenticateWithPrivateKeyJWT(ctx, client, r)
    [] client.AuthnMethod = ClientAuthnSecretJWT ->
         authenticateWithClientSecretJWT(ctx, client, r)
    [] client.AuthnMethod = ClientAuthnSelfSignedTLS ->
         authenticateWithSelfSignedTLSCertificate(ctx, client, r)
    [] client.AuthnMethod = ClientAuthnTLS ->
         authenticateWithTLSCertificate(ctx, client, r)
    [] OTHER ->
         NewError(ErrorCodeInvalidClient, "invalid authentication method")

\* authn.Client; ctx.registered is the client the client manager holds.
Client(ctx, r) ==
  LET id == getClientID(ctx, r) IN
    IF ~id.ok
      THEN [client |-> Nil,
            err |-> NewError(ErrorCodeInvalidClient, "invalid client")]
    ELSE IF id.clientID # ctx.registered.ID
      THEN [client |-> Nil,
            err |-> NewError(ErrorCodeInvalidClient, "invalid client")]
    ELSE LET err == authenticateClient(ctx, ctx.registered, r) IN
      IF err # Nil THEN [client |-> Nil, err |-> err]
      ELSE [client |-> ctx.registered, err |-> Nil]

\* The client assertions of the model: none, one that does not parse, and
\* signed ones that differ in their key and in their iss claim.
Assertions ==
  {NoAssertion,
   Assertion(FALSE, "kid1", "k1", String("cid1"), "cid1", TRUE, TRUE),
   Assertion(TRUE, "kid1", "k1", String("cid1"), "cid1", TRUE, TRUE),
   Assertion(TRUE, "", "s1", String("cid1"), "cid1", TRUE, TRUE),
   Assertion(TRUE, "kid1", "k2", String("cid1"), "cid1", TRUE, TRUE),
   Assertion(TRUE, "kid1", "k1", String("cid1"), "cid1", TRUE, FALSE),
   Assertion(TRUE, "kid1", "k1", String("cid2"), "cid2", TRUE, TRUE),
   Assertion(TRUE, "kid1", "k1", String(""), "cid1", TRUE, TRUE),
   Assertion(TRUE, "kid1", "k1", Missing, "cid1", TRUE, TRUE),
   Assertion(TRUE, "kid1", "k1", Number, "cid1", TRUE, TRUE)}

Certificates ==
  {NoCertificate,
   Certificate("CN=cid1", {"cid1.example"}, {"10.0.0.1"}, "raw1", "k1"),
   Certificate("CN=cid1", {}, {}, "raw1", "k2"),
   Certificate("CN=other", {"cid1.example"}, {}, "raw2", "k1"),
   Certificate("CN=other", {"other.example"}, {"10.0.0.2"}, "raw2", "k2")}

\* The requests whose client is identified: every combination of the
\* three places a client id can come from.
IdentificationArgs ==
  [op : {"getClientID"},
   ctx : [BasicAuth : {NoBasicAuth, BasicAuth("", "s1"),
                       BasicAuth("cid1", "s1"), BasicAuth("cid2", "s1")},
          ClientCertificate : {NoCertificate},
          registered : {RegisteredClient(ClientAuthnSecretPost, "", "", "",
                                         TRUE)}],
   req : [ClientID : {"", "cid1", "cid2"}, ClientSecret : {""},
          ClientAssertionType : {AssertionTypeJWTBearer},
          ClientAssertion : Assertions]]

\* The requests that are authenticated: the registered client, of any
\* method, and what the request presents.
AuthenticationArgs ==
  [op : {"Client"},
   ctx : [BasicAuth : {NoBasicAuth, BasicAuth("cid1", "s1"),
                       BasicAuth("cid1", "bad")},
          ClientCertificate : Certificates,
          registered : RegisteredClients],
   req : [ClientID : {"", "cid1", "cid2"}, ClientSecret : {"", "s1", "bad"},
          ClientAssertionType : {"", AssertionTypeJWTBearer},
          ClientAssertion :
            {a \in Assertions : a = NoAssertion \/ a.claims.iss.kind = "string"}]]

InitClientAuthn ==
  /\ authnSessions = {}
  /\ grantSessions = {}
  /\ req = [r \in Reqs |-> IdleReq]
  /\ now = 0
  /\ nextCode = 1
  /\ crashed = FALSE
  /\ snap = NoSnap
  /\ areq = [a \in AuthorizeReqs |-> IdleAuthorizeReq]
  /\ nextURI = 1
  /\ nextToken = 1
  /\ issued = {}
  /\ rotated = {}
  /\ out = NoResponse
  /\ rreq = [q \in RefreshReqs |-> IdleRefreshReq]
  /\ args \in IdentificationArgs \cup AuthenticationArgs
  /\ result = NoResult

\* getClientID is called with the request.
IdentifyClient ==
  /\ result = NoResult
  /\ args.op = "getClientID"
  /\ result' = [op |-> args.op] @@ getClientID(args.ctx, args.req)
  /\ UNCHANGED <<authnSessions, grantSessions, now, args>>
  /\ UNCHANGED <<tokenVars, authorizeVars, grantVars>>

\* authn.Client is called with the request.
AuthenticateClient ==
  /\ result = NoResult
  /\ args.op = "Client"
  /\ result' = [op |-> args.op] @@ Client(args.ctx, args.req)
  /\ UNCHANGED <<authnSessions, grantSessions, now, args>>
  /\ UNCHANGED <<tokenVars, authorizeVars, grantVars>>

NextClientAuthn ==
  \/ IdentifyClient
  \/ AuthenticateClient

SpecClientAuthn == InitClientAuthn /\ [][NextClientAuthn]_vars

(***************************************************************************)
(* Vocabulary of the claims about client authentication.                   *)
(***************************************************************************)
\* The client id candidates a request presents: a form client_id and a
\* Basic username when they are not the empty string, and the iss of the
\* client assertion when there is an assertion (the empty string when the
\* assertion has no readable iss).
Candidates(ctx, r) ==
  (IF r.ClientID # "" THEN {r.ClientID} ELSE {})
  \cup (IF ctx.BasicAuth.username # "" THEN {ctx.BasicAuth.username} ELSE {})
  \cup (IF r.ClientAssertion = NoAssertion THEN {}
        ELSE IF /\ r.ClientAssertion.parses
                /\ r.ClientAssertion.claims.iss.kind = "string"
          THEN {r.ClientAssertion.claims.iss.s}
        ELSE {""})

\* C25: client identification succeeds iff at least one client_id
\* candidate is present among the form client_id, the Basic username and
\* the iss of the client assertion, every presented candidate is
\* non-empty, and all presented candidates are equal; it then returns that
\* common value.
C25_IdentifiedIffCandidatesAgree ==
  result.op = "getClientID" =>
    LET c == Candidates(args.ctx, args.req) IN
      /\ result.ok <=> (c # {} /\ "" \notin c /\ Cardinality(c) = 1)
      /\ result.ok => result.clientID \in c

\* C26: a client whose auth method is none authenticates only if the
\* request's client_id matches the client and the request carries no
\* client secret.
C26_NoneAuthnPermitsNoSecret ==
  (/\ result.op = "Client"
   /\ args.ctx.registered.AuthnMethod = ClientAuthnNone
   /\ result.err = Nil) =>
    /\ args.req.ClientID = args.ctx.registered.ID
    /\ args.req.ClientSecret = ""

\* C27: every client authentication failure, for every auth method,
\* surfaces with the error code invalid_client.
C27_AuthnFailureIsInvalidClient ==
  (result.op = "Client" /\ result.err # Nil) =>
    result.err.ErrorCode = ErrorCodeInvalidClient

\* The certificate matches the attribute the client registered.
MatchesSubjectDN(client, cert) ==
  client.TLSSubjectDistinguishedName # ""
    /\ cert.Subject = client.TLSSubjectDistinguishedName
MatchesSANDNS(client, cert) ==
  client.TLSSubjectAlternativeName # ""
    /\ client.TLSSubjectAlternativeName \in cert.DNSNames
MatchesSANIP(client, cert) ==
  client.TLSSubjectAlternativeNameIp # ""
    /\ client.TLSSubjectAlternativeNameIp \in cert.IPAddresses

\* C28: tls_client_auth authentication succeeds only if a peer
\* certificate is presented and it matches at least one of the client's
\* tls_client_auth_subject_dn, tls_client_auth_san_dns or
\* tls_client_auth_san_ip.
C28_TLSAuthnNeedsMatchingCertificate ==
  (/\ result.op = "Client"
   /\ args.ctx.registered.AuthnMethod = ClientAuthnTLS
   /\ result.err = Nil) =>
    /\ args.ctx.ClientCertificate.present
    /\ \/ MatchesSubjectDN(args.ctx.registered, args.ctx.ClientCertificate)
       \/ MatchesSANDNS(args.ctx.registered, args.ctx.ClientCertificate)
       \/ MatchesSANIP(args.ctx.registered, args.ctx.ClientCertificate)

(***************************************************************************)
(* DPoP proofs: utils.ValidateDPOPJWT.                                     *)
(***************************************************************************)

\* ctx.DPOPLifetimeSecs: how old the "iat" of a proof may be.
DPOPLifetimeSecs == 5

\* What jwt.ParseSigned and Claims read out of the DPoP header value:
\* whether it parses with an enabled algorithm, the number of signature
\* headers, the "typ" header, the "jwk" header, whether the signature
\* verifies under that key, and the claims iat, exp, jti, htm, htu, ath.
NoJWK == [present |-> FALSE]

JSONWebKey(key, valid, public) ==
  [present |-> TRUE, Key |-> key, Valid |-> valid, IsPublic |-> public]

NoNumericDate == [present |-> FALSE]

NumericDate(t) == [present |-> TRUE, Time |-> t]

DPOPJWT(parses, headers, typ, jwk, signed, iat, exp, jti, htm, htu, ath) ==
  [parses |-> parses, Headers |-> headers, typ |-> typ, JSONWebKey |-> jwk,
   signed |-> signed, IssuedAt |-> iat, Expiry |-> exp, ID |-> jti,
   HTTPMethod |-> htm, HTTPURI |-> htu, AccessTokenHash |-> ath]

\* DPOPJWTValidationOptions: the access token and the thumbprint a proof is
\* expected to match; an empty field is not checked.
DPOPJWTValidationOptions(accessToken, jwkThumbprint) ==
  [AccessToken |-> accessToken, JWKThumbprint |-> jwkThumbprint]

\* strings.ToLower on the "htu" values of the model.
ToLower(s) ==
  CASE s = "HTTPS://HOST/TOKEN" -> "https://host/token"
    [] OTHER -> s

\* GetURLWithoutParams: url.Parse, then the query and the fragment are
\* dropped.
GetURLWithoutParams(u) ==
  CASE u = "%zz" -> [err |-> TRUE, url |-> ""]
    [] u = "https://host/token?a=1#f" ->
         [err |-> FALSE, url |-> "https://host/token"]
    [] OTHER -> [err |-> FALSE, url |-> u]

\* GenerateBase64URLSHA256Hash of an access token.
GenerateBase64URLSHA256Hash(s) ==
  CASE s = "" -> "S256()"
    [] s = "at1" -> "S256(at1)"
    [] s = "at2" -> "S256(at2)"

\* GenerateJWKThumbprint: the base64url SHA-256 thumbprint of the JWK in
\* the header of the proof.
GenerateJWKThumbprint(dpopJWT) ==
  CASE dpopJWT.JSONWebKey.Key = "k1" -> "jkt(k1)"
    [] dpopJWT.JSONWebKey.Key = "k2" -> "jkt(k2)"

\* claims.ValidateWithLeeway(jwt.Expected{}, 0): no expected value is set,
\* so only the times are compared with the current time.
ValidateWithLeeway(claims, t) ==
  /\ claims.Expiry.present => ~(t > claims.Expiry.Time)
  /\ claims.IssuedAt.present => ~(t < claims.IssuedAt.Time)

ValidateDPOPJWT(ctx, dpopJWT, expectedDPOPClaims) ==
  IF ~dpopJWT.parses
    THEN NewOAuthError(ErrorCodeInvalidRequest, "invalid dpop")
  ELSE IF dpopJWT.Headers # 1
    THEN NewOAuthError(ErrorCodeInvalidRequest, "invalid dpop")
  ELSE IF dpopJWT.typ # "dpop+jwt"
    THEN NewOAuthError(ErrorCodeInvalidRequest,
                       "invalid typ header. it should be dpop+jwt")
  ELSE IF \/ ~dpopJWT.JSONWebKey.present
          \/ ~dpopJWT.JSONWebKey.Valid
          \/ ~dpopJWT.JSONWebKey.IsPublic
    THEN NewOAuthError(ErrorCodeInvalidRequest, "invalid jwk header")
  ELSE IF ~dpopJWT.signed
    THEN NewOAuthError(ErrorCodeInvalidRequest, "invalid dpop")
  ELSE IF \/ ~dpopJWT.IssuedAt.present
          \/ ctx.now - dpopJWT.IssuedAt.Time > ctx.DPOPLifetimeSecs
    THEN NewOAuthError(ErrorCodeUnauthorizedClient, "invalid dpop")
  ELSE IF dpopJWT.ID = ""
    THEN NewOAuthError(ErrorCodeInvalidRequest, "invalid jti claim")
  ELSE IF dpopJWT.HTTPMethod # ctx.RequestMethod
    THEN NewOAuthError(ErrorCodeInvalidRequest, "invalid htm claim")
  ELSE LET httpURI == GetURLWithoutParams(ToLower(dpopJWT.HTTPURI)) IN
  IF httpURI.err \/ httpURI.url \notin ctx.Audiences
    THEN NewOAuthError(ErrorCodeInvalidRequest, "invalid htu claim")
  ELSE IF /\ expectedDPOPClaims.AccessToken # ""
          /\ dpopJWT.AccessTokenHash
               # GenerateBase64URLSHA256Hash(expectedDPOPClaims.AccessToken)
    THEN NewOAuthError(ErrorCodeInvalidRequest, "invalid ath claim")
  ELSE IF /\ expectedDPOPClaims.JWKThumbprint # ""
          /\ GenerateJWKThumbprint(dpopJWT)
               # expectedDPOPClaims.JWKThumbprint
    THEN NewOAuthError(ErrorCodeInvalidRequest, "invalid jwk thumbprint")
  ELSE IF ~ValidateWithLeeway(dpopJWT, ctx.now)
    THEN NewOAuthError(ErrorCodeInvalidRequest, "invalid dpop")
  ELSE Nil

JSONWebKeys ==
  {NoJWK, JSONWebKey("k1", FALSE, TRUE), JSONWebKey("k1", TRUE, FALSE),
   JSONWebKey("k1", TRUE, TRUE), JSONWebKey("k2", TRUE, TRUE)}

\* The proofs a request can carry: each one departs from a well-formed
\* proof in its key and in at most the listed fields.
DPOPJWTs ==
  {DPOPJWT(parses, headers, typ, jwk, signed, iat, exp, jti, htm, htu, ath) :
     parses \in BOOLEAN, headers \in {1, 2}, typ \in {"dpop+jwt", "jwt"},
     jwk \in JSONWebKeys, signed \in BOOLEAN,
     iat \in {NoNumericDate, NumericDate(0 - 10), NumericDate(0 - 1)},
     exp \in {NoNumericDate, NumericDate(0 - 1)},
     jti \in {"", "jti1"}, htm \in {"POST", "GET"},
     htu \in {"https://host/token", "HTTPS://HOST/TOKEN",
              "https://host/token?a=1#f", "https://other/token", "%zz"},
     ath \in {"", "S256(at1)"}}

DPOPValidationArgs ==
  [op : {"ValidateDPOPJWT"},
   ctx : [now : {0}, DPOPLifetimeSecs : {DPOPLifetimeSecs},
          RequestMethod : {"POST"}, Audiences : {{"https://host/token"}}],
   dpopJWT : DPOPJWTs,
   expected : {DPOPJWTValidationOptions(t, j) :
                 t \in {"", "at1"}, j \in {"", "jkt(k1)"}}]

InitDPoP ==
  /\ authnSessions = {}
  /\ grantSessions = {}
  /\ req = [r \in Reqs |-> IdleReq]
  /\ now = 0
  /\ nextCode = 1
  /\ crashed = FALSE
  /\ snap = NoSnap
  /\ areq = [a \in AuthorizeReqs |-> IdleAuthorizeReq]
  /\ nextURI = 1
  /\ nextToken = 1
  /\ issued = {}
  /\ rotated = {}
  /\ out = NoResponse
  /\ rreq = [q \in RefreshReqs |-> IdleRefreshReq]
  /\ args \in DPOPValidationArgs
  /\ result = NoResult

\* ValidateDPOPJWT is called with the DPoP header of the request.
ValidateProof ==
  /\ result = NoResult
  /\ args.op = "ValidateDPOPJWT"
  /\ result' = [op |-> args.op,
                err |-> ValidateDPOPJWT(args.ctx, args.dpopJWT, args.expected)]
  /\ UNCHANGED <<authnSessions, grantSessions, now, args>>
  /\ UNCHANGED <<tokenVars, authorizeVars, grantVars>>

NextDPoP == ValidateProof

SpecDPoP == InitDPoP /\ [][NextDPoP]_vars

ErrorCodeInvalidToken == "invalid_token"

\* The proof was presented for a token bound to a thumbprint, it is a proof
\* that is accepted where no thumbprint is expected, and the thumbprint of
\* its key is another one.
PresentsOtherThumbprint ==
  /\ args.op = "ValidateDPOPJWT"
  /\ result.op = "ValidateDPOPJWT"
  /\ args.expected.JWKThumbprint # ""
  /\ ValidateDPOPJWT(args.ctx, args.dpopJWT,
                     [args.expected EXCEPT !.JWKThumbprint = ""]) = Nil
  /\ GenerateJWKThumbprint(args.dpopJWT) # args.expected.JWKThumbprint

\* C29: for a DPoP-bound access token with stored thumbprint j, a request
\* whose DPoP proof has a JWK thumbprint other than j fails with
\* invalid_token.
C29_OtherThumbprintIsInvalidToken ==
  PresentsOtherThumbprint => result.err.ErrorCode = ErrorCodeInvalidToken

\* The same requests do fail: none of them is accepted.
C29_OtherThumbprintFails ==
  PresentsOtherThumbprint => result.err # Nil

C29_OtherThumbprintRejected ==
  /\ PresentsOtherThumbprint
  /\ result.err = NewOAuthError(ErrorCodeInvalidRequest,
                                "invalid jwk thumbprint")

(***************************************************************************)
(* The authorization_code grant, the issuance: what                        *)
(* handleAuthorizationCodeGrantTokenCreation does once the request is      *)
(* validated.  Two versions of the handler are in the repository: the one  *)
(* that asks the grant model for the grant session and saves it when       *)
(* shouldCreateGrantSessionForAuthorizationCodeGrant says so, and the one  *)
(* that makes the token and calls generateAuthorizationCodeGrantSession.   *)
(***************************************************************************)

\* The number of token requests that are answered.
MaxIssued == 2

JWT == "jwt"
Opaque == "opaque"

TokenFormats == {JWT, Opaque}

\* The scopes an authn session can carry as granted.
GrantedScopeSets == SUBSET {ScopeOpenID, ScopeOfflineAccess, "email"}

shouldCreateGrantSessionForAuthorizationCodeGrant(grantSession) ==
  \/ grantSession.TokenFormat = Opaque
  \/ grantSession.RefreshToken # Empty
  \/ ScopeOpenID \in grantSession.Scopes

\* grantModel.GenerateGrantSession: the grant model of the client fixes the
\* token format and whether a refresh token is generated.
GenerateGrantSession(id, format, isRefreshable, cl, scopes, refreshToken) ==
  [ID |-> id, TokenID |-> id, TokenFormat |-> format,
   RefreshToken |-> IF isRefreshable THEN refreshToken ELSE Empty,
   ClientID |-> cl, Scopes |-> scopes, CreatedAtTimestamp |-> now]

\* The handler with a grant model: the session is saved only when
\* shouldCreateGrantSessionForAuthorizationCodeGrant holds.
IssueWithGrantModel(format, isRefreshable, cl, scopes) ==
  /\ nextToken < 2 * MaxIssued
  /\ LET grantSession == GenerateGrantSession(nextToken, format,
                           isRefreshable, cl, scopes, nextToken + 1) IN
       /\ grantSessions' =
            IF shouldCreateGrantSessionForAuthorizationCodeGrant(grantSession)
              THEN CreateOrUpdateGrantSession(grantSession)
              ELSE grantSessions
       /\ result' = [op |-> "GenerateGrantSession", err |-> Nil,
                     TokenFormat |-> grantSession.TokenFormat,
                     RefreshToken |-> grantSession.RefreshToken,
                     GrantedScopes |-> grantSession.Scopes]
  /\ nextToken' = nextToken + 2
  /\ UNCHANGED <<authnSessions, now, args, issued, rotated, out, rreq>>
  /\ UNCHANGED <<tokenVars, authorizeVars>>

\* The handler with grant options: Make builds a token of the format of the
\* options, generateAuthorizationCodeGrantSession builds the session and
\* saves it.
IssueWithGrantOptions(format, cl, scopes) ==
  /\ nextToken < 2 * MaxIssued
  /\ LET grantSession == generateAuthorizationCodeGrantSession(
                           nextToken, nextToken, cl, scopes, nextToken + 1) IN
       /\ grantSessions' = CreateOrUpdateGrantSession(grantSession)
       /\ result' = [op |-> "generateAuthorizationCodeGrantSession",
                     err |-> Nil,
                     TokenFormat |-> format,
                     RefreshToken |-> grantSession.RefreshToken,
                     GrantedScopes |-> grantSession.GrantedScopes]
  /\ nextToken' = nextToken + 2
  /\ UNCHANGED <<authnSessions, now, args, issued, rotated, out, rreq>>
  /\ UNCHANGED <<tokenVars, authorizeVars>>

InitIssue ==
  /\ authnSessions = {}
  /\ grantSessions = {}
  /\ req = [r \in Reqs |-> IdleReq]
  /\ now = 0
  /\ nextCode = 1
  /\ crashed = FALSE
  /\ snap = NoSnap
  /\ areq = [a \in AuthorizeReqs |-> IdleAuthorizeReq]
  /\ nextURI = 1
  /\ nextToken = 1
  /\ issued = {}
  /\ rotated = {}
  /\ out = NoResponse
  /\ rreq = [q \in RefreshReqs |-> IdleRefreshReq]
  /\ args = [op |-> "none"]
  /\ result = NoResult

NextIssue ==
  \/ \E format \in TokenFormats, isRefreshable \in BOOLEAN,
        cl \in {"cid1"}, scopes \in GrantedScopeSets :
       IssueWithGrantModel(format, isRefreshable, cl, scopes)
  \/ \E format \in TokenFormats, cl \in {"cid1"},
        scopes \in GrantedScopeSets :
       IssueWithGrantOptions(format, cl, scopes)

SpecIssue == InitIssue /\ [][NextIssue]_vars

\* A token request was answered with a token.
TokenIssued == nextToken' # nextToken /\ result'.err = Nil

\* The three conditions under which the issued token needs a grant session.
GrantSessionRequired(issuance) ==
  \/ issuance.TokenFormat = Opaque
  \/ issuance.RefreshToken # Empty
  \/ ScopeOpenID \in issuance.GrantedScopes

PersistsIffRequired ==
  /\ grantSessions \subseteq grantSessions'
  /\ Cardinality(grantSessions' \ grantSessions)
       = IF GrantSessionRequired(result') THEN 1 ELSE 0

\* C30: a successful token issuance persists exactly one GrantSession when
\* the token format is opaque, a refresh token is issued or the openid
\* scope is granted, and none otherwise.
C30_GrantSessionPersistedIffRequired ==
  [][TokenIssued => PersistsIffRequired]_vars

\* The handler with a grant model does so.
C30_GrantModelHandlerPersistsIffRequired ==
  [][TokenIssued /\ result'.op = "GenerateGrantSession"
       => PersistsIffRequired]_vars

\* Whenever a grant session is required, exactly one is persisted, by both
\* handlers.
C30_RequiredGrantSessionIsPersisted ==
  [][TokenIssued /\ GrantSessionRequired(result')
       => PersistsIffRequired]_vars

\* A JWT without refresh token and without the openid scope was issued and
\* a grant session was persisted with it.
C30_UnrequiredGrantSessionPersisted ==
  /\ result.op = "generateAuthorizationCodeGrantSession"
  /\ ~GrantSessionRequired(result)
  /\ Cardinality(grantSessions) = 1

(***************************************************************************)
(* The issuance by generateAuthorizationCodeGrantSession while the clock   *)
(* advances.  The session it builds does not depend on the token format.   *)
(***************************************************************************)
NextIssueClock ==
  \/ \E cl \in {"cid1"}, scopes \in GrantedScopeSets :
       IssueWithGrantOptions(JWT, cl, scopes)
  \/ Tick

SpecIssueClock == InitIssue /\ [][NextIssueClock]_vars

\* The handler that calls generateAuthorizationCodeGrantSession answered a
\* token request.
CodeRedeemed ==
  /\ TokenIssued
  /\ result'.op = "generateAuthorizationCodeGrantSession"

\* C31: the GrantSession created by a code redemption carries a refresh
\* token exactly when offline_access is among the granted scopes; with it
\* the session expires at now + refresh lifetime, without it at its creation
\* time + token lifetime.
C31_RefreshTokenIffOfflineAccess ==
  [][CodeRedeemed =>
       /\ Cardinality(grantSessions' \ grantSessions) = 1
       /\ \A g \in grantSessions' \ grantSessions :
            /\ g.RefreshToken # Empty <=> ScopeOfflineAccess \in g.GrantedScopes
            /\ g.CreatedAtTimestamp = now
            /\ g.ExpiresAtTimestamp =
                 IF ScopeOfflineAccess \in g.GrantedScopes
                   THEN now + RefreshTokenLifetimeSecs
                   ELSE g.CreatedAtTimestamp + TokenLifetimeSecs]_vars

\* Both kinds of session were created after the clock had advanced: one
\* with offline_access and a refresh token, one without either.
C31_Witness ==
  /\ \E g \in grantSessions :
       /\ g.ID = g.TokenID
       /\ "GrantedScopes" \in DOMAIN g
       /\ ScopeOfflineAccess \in g.GrantedScopes
       /\ g.RefreshToken # Empty
       /\ g.CreatedAtTimestamp > 0
       /\ g.ExpiresAtTimestamp = g.CreatedAtTimestamp + RefreshTokenLifetimeSecs
  /\ \E g \in grantSessions :
       /\ "GrantedScopes" \in DOMAIN g
       /\ ScopeOfflineAccess \notin g.GrantedScopes
       /\ g.RefreshToken = Empty
       /\ g.ExpiresAtTimestamp = g.CreatedAtTimestamp + TokenLifetimeSecs

(***************************************************************************)
(* The ID token of a code redemption: newIDTokenOptions, makeIdToken and   *)
(* the part of handleAuthorizationCodeGrantTokenCreation that fills the    *)
(* token response.  The claims of a token are a map from claim names to    *)
(* values.                                                                 *)
(***************************************************************************)

\* ctx.IdTokenExpiresInSecs.
IdTokenExpiresInSecs == 3

\* An empty map of claims.
NoClaims == [k \in {} |-> ""]

\* HalfHashClaim: the base64url encoding of the left half of the digest of
\* the value, the digest being the one of the signature algorithm.
HalfHashClaim(claimValue, idTokenAlgorithm) ==
  CASE idTokenAlgorithm \in {"RS256", "ES256", "PS256", "HS256"} ->
         <<"sha256", "left half", claimValue>>
    [] idTokenAlgorithm \in {"RS384", "ES384", "PS384", "HS384"} ->
         <<"sha384", "left half", claimValue>>
    [] idTokenAlgorithm \in {"RS512", "ES512", "PS512", "HS512"} ->
         <<"sha512", "left half", claimValue>>

\* newIDTokenOptions: the subject and the additional claims of the grant
\* options; the access token, the code and the state stay empty.
newIDTokenOptions(grantOpts) ==
  [Subject |-> grantOpts.Subject,
   ClientId |-> grantOpts.ClientID,
   AdditionalIdTokenClaims |-> grantOpts.AdditionalIDTokenClaims,
   AccessToken |-> "", AuthorizationCode |-> "", State |-> ""]

\* makeIdToken: the claims that are signed.  The additional claims are
\* written last, over the entries the map already has.
makeIdToken(ctx, client, idTokenOpts) ==
  LET alg == client.IdTokenSignatureAlgorithm
      claims == [iss |-> ctx.Host, sub |-> idTokenOpts.Subject,
                 aud |-> idTokenOpts.ClientId, iat |-> ctx.now,
                 exp |-> ctx.now + ctx.IdTokenExpiresInSecs]
      withAccessToken ==
        IF idTokenOpts.AccessToken # ""
          THEN [at_hash |-> HalfHashClaim(idTokenOpts.AccessToken, alg)]
                 @@ claims
          ELSE claims
      withCode ==
        IF idTokenOpts.AuthorizationCode # ""
          THEN [c_hash |-> HalfHashClaim(idTokenOpts.AuthorizationCode, alg)]
                 @@ withAccessToken
          ELSE withAccessToken
      withState ==
        IF idTokenOpts.State # ""
          THEN [s_hash |-> HalfHashClaim(idTokenOpts.State, alg)] @@ withCode
          ELSE withCode
  IN idTokenOpts.AdditionalIdTokenClaims @@ withState

\* newAuthorizationCodeGrantOptions: what the grant options take from the
\* authn session.
newAuthorizationCodeGrantOptions(session) ==
  [GrantType |-> GrantAuthorizationCode,
   GrantedScopes |-> session.GrantedScopes,
   Subject |-> session.Subject,
   ClientID |-> session.ClientID,
   AdditionalIDTokenClaims |-> session.AdditionalIDTokenClaims]

NoIDToken == [present |-> FALSE]

\* handleAuthorizationCodeGrantTokenCreation from the grant options on: the
\* response carries the value of the token that was made and, when openid
\* is granted, an ID token made from newIDTokenOptions.
tokenResponseOfRedemption(ctx, client, session, token) ==
  LET grantOptions == newAuthorizationCodeGrantOptions(session) IN
    [AccessToken |-> token,
     IDToken |->
       IF ScopeOpenID \in session.GrantedScopes
         THEN [present |-> TRUE,
               claims |-> makeIdToken(ctx, client,
                                      newIDTokenOptions(grantOptions))]
         ELSE NoIDToken]

\* The additional ID token claims an authentication policy leaves in the
\* session; the nonce of the request may be among them.
AdditionalIDTokenClaimSets ==
  {NoClaims, [email |-> "e1"], [nonce |-> "n1"], [nonce |-> "n2"]}

RedemptionArgs ==
  [op : {"handleAuthorizationCodeGrantTokenCreation"},
   ctx : [Host : {"https://host"}, now : {0, 1},
          IdTokenExpiresInSecs : {IdTokenExpiresInSecs}],
   client : [ID : {"cid1"},
             IdTokenSignatureAlgorithm : {"RS256", "ES384", "PS512"}],
   session : [ClientID : {"cid1"}, Subject : {"user1"},
              Nonce : {"", "n1"},
              GrantedScopes : SUBSET {ScopeOpenID, "email"},
              AdditionalIDTokenClaims : AdditionalIDTokenClaimSets],
   token : {"at1", "at2"}]

InitIDToken ==
  /\ authnSessions = {}
  /\ grantSessions = {}
  /\ req = [r \in Reqs |-> IdleReq]
  /\ now = 0
  /\ nextCode = 1
  /\ crashed = FALSE
  /\ snap = NoSnap
  /\ areq = [a \in AuthorizeReqs |-> IdleAuthorizeReq]
  /\ nextURI = 1
  /\ nextToken = 1
  /\ issued = {}
  /\ rotated = {}
  /\ out = NoResponse
  /\ rreq = [q \in RefreshReqs |-> IdleRefreshReq]
  /\ args \in RedemptionArgs
  /\ result = NoResult

\* The token response of the redemption is built.
RespondToRedemption ==
  /\ result = NoResult
  /\ args.op = "handleAuthorizationCodeGrantTokenCreation"
  /\ result' = [op |-> args.op,
                tokenResp |-> tokenResponseOfRedemption(
                                args.ctx, args.client, args.session,
                                args.token)]
  /\ UNCHANGED <<authnSessions, grantSessions, now, args>>
  /\ UNCHANGED <<tokenVars, authorizeVars, grantVars>>

NextIDToken == RespondToRedemption

SpecIDToken == InitIDToken /\ [][NextIDToken]_vars

\* A code was redeemed for a session that was granted openid.
OpenIDRedeemed ==
  /\ result.op = "handleAuthorizationCodeGrantTokenCreation"
  /\ ScopeOpenID \in args.session.GrantedScopes

\* C32: when openid is granted, the token response of a code redemption has
\* an ID token whose at_hash is computed from the access token of the same
\* response and whose nonce is the nonce of the authorization request.
C32_IDTokenHasAtHashAndNonce ==
  OpenIDRedeemed =>
    /\ result.tokenResp.IDToken.present
    /\ LET claims == result.tokenResp.IDToken.claims IN
         /\ "at_hash" \in DOMAIN claims
         /\ claims.at_hash
              = HalfHashClaim(result.tokenResp.AccessToken,
                              args.client.IdTokenSignatureAlgorithm)
         /\ args.session.Nonce # "" =>
              /\ "nonce" \in DOMAIN claims
              /\ claims.nonce = args.session.Nonce

\* The ID token is present exactly when openid is granted.
C32_IDTokenIffOpenID ==
  result.op = "handleAuthorizationCodeGrantTokenCreation" =>
    (result.tokenResp.IDToken.present
       <=> ScopeOpenID \in args.session.GrantedScopes)

\* The ID token of a redemption never has an at_hash.
C32_NoAtHash ==
  OpenIDRedeemed => "at_hash" \notin DOMAIN result.tokenResp.IDToken.claims

\* The policy copied the nonce of the request into the additional claims
\* and the ID token still lacks the at_hash.
C32_NonceEchoedWithoutAtHash ==
  /\ OpenIDRedeemed
  /\ args.session.Nonce = "n1"
  /\ args.session.AdditionalIDTokenClaims = [nonce |-> "n1"]
  /\ result.tokenResp.IDToken.claims.nonce = "n1"
  /\ "at_hash" \notin DOMAIN result.tokenResp.IDToken.claims

(***************************************************************************)
(* Client.AreScopesAllowed with the scopes of the server.  A string is a   *)
(* sequence of characters, so that strings.Contains and strings.Split are  *)
(* computed character by character.                                        *)
(***************************************************************************)

\* The longest scope string of a client.
MaxScopeLen == 3

ScopeChars == {"a", "b", " "}

ScopeText(n) == UNION {[1..m -> ScopeChars] : m \in 0..n}

\* strings.Contains
Contains(s, substr) ==
  \E i \in 1..(Len(s) + 1) :
    /\ i + Len(substr) - 1 <= Len(s)
    /\ SubSeq(s, i, i + Len(substr) - 1) = substr

\* strings.Split(s, " "): the pieces between the spaces, the empty ones
\* included; a string without a space is its only piece.
RECURSIVE Split(_)
Split(s) ==
  IF \A i \in 1..Len(s) : s[i] # " "
    THEN <<s>>
    ELSE LET i == CHOOSE j \in 1..Len(s) :
                    /\ s[j] = " "
                    /\ \A k \in 1..(j - 1) : s[k] # " "
         IN <<SubSeq(s, 1, i - 1)>> \o Split(SubSeq(s, i + 1, Len(s)))

\* NewScope and NewDynamicScope: a scope matches a requested scope that is
\* its ID or, for the dynamic scope of the documentation, that begins
\* with it.
NewScope(scope) == [ID |-> scope, dynamic |-> FALSE]

NewDynamicScope(scope) == [ID |-> scope, dynamic |-> TRUE]

ScopeMatches(scope, requestedScope) ==
  IF scope.dynamic
    THEN HasPrefix(requestedScope, scope.ID)
    ELSE scope.ID = requestedScope

\* Client.AreScopesAllowed(availableScopes, requestedScopes)
AreScopesAllowedAmong(c, availableScopes, requestedScopes) ==
  IF requestedScopes = <<>>
    THEN TRUE
    ELSE LET clientScopes ==
               {scope \in availableScopes : Contains(c.Scopes, scope.ID)}
             requested == Split(requestedScopes)
         IN \A i \in 1..Len(requested) :
              \E scope \in clientScopes : ScopeMatches(scope, requested[i])

\* The scopes of the server.
AvailableScopeSets ==
  SUBSET {NewScope(<<"a">>), NewScope(<<"b">>), NewScope(<<"a", "b">>),
          NewDynamicScope(<<"a">>)}

ScopesArgs ==
  [op : {"AreScopesAllowed"},
   client : [Scopes : ScopeText(MaxScopeLen)],
   availableScopes : AvailableScopeSets,
   requestedScopes : ScopeText(MaxScopeLen - 1)]

InitScopes ==
  /\ authnSessions = {}
  /\ grantSessions = {}
  /\ req = [r \in Reqs |-> IdleReq]
  /\ now = 0
  /\ nextCode = 1
  /\ crashed = FALSE
  /\ snap = NoSnap
  /\ areq = [a \in AuthorizeReqs |-> IdleAuthorizeReq]
  /\ nextURI = 1
  /\ nextToken = 1
  /\ issued = {}
  /\ rotated = {}
  /\ out = NoResponse
  /\ rreq = [q \in RefreshReqs |-> IdleRefreshReq]
  /\ args \in ScopesArgs
  /\ result = NoResult

CheckScopes ==
  /\ result = NoResult
  /\ args.op = "AreScopesAllowed"
  /\ result' = [op |-> args.op,
                allowed |-> AreScopesAllowedAmong(args.client,
                              args.availableScopes, args.requestedScopes)]
  /\ UNCHANGED <<authnSessions, grantSessions, now, args>>
  /\ UNCHANGED <<tokenVars, authorizeVars, grantVars>>

NextScopes == CheckScopes

SpecScopes == InitScopes /\ [][NextScopes]_vars

\* The entries of a space-delimited string.
Entries(s) == {Split(s)[i] : i \in 1..Len(Split(s))}

\* The server scopes whose ID is one of the registered scopes of the client.
RegisteredScopes(c, availableScopes) ==
  {scope \in availableScopes : scope.ID \in Entries(c.Scopes)}

\* C33: AreScopesAllowed is true exactly when the request is empty or every
\* entry of the requested scope string is matched by a server scope whose
\* ID is one of the space-delimited registered scopes of the client.
C33_AllowedIffEveryEntryMatchesARegisteredScope ==
  result.op = "AreScopesAllowed" =>
    (result.allowed <=>
       \/ args.requestedScopes = <<>>
       \/ \A entry \in Entries(args.requestedScopes) :
            \E scope \in RegisteredScopes(args.client, args.availableScopes) :
              ScopeMatches(scope, entry))

\* One direction holds: a request the statement allows is allowed.
C33_RegisteredScopesAreAllowed ==
  result.op = "AreScopesAllowed" =>
    ((\/ args.requestedScopes = <<>>
      \/ \A entry \in Entries(args.requestedScopes) :
           \E scope \in RegisteredScopes(args.client, args.availableScopes) :
             ScopeMatches(scope, entry))
       => result.allowed)

\* The client registered the scope ab only and is allowed the scope a.
C33_SubstringOfRegisteredScopeAllowed ==
  /\ result.op = "AreScopesAllowed"
  /\ args.client.Scopes = <<"a", "b">>
  /\ args.requestedScopes = <<"a">>
  /\ NewScope(<<"a">>) \in args.availableScopes
  /\ result.allowed

(***************************************************************************)
(* The cache-control headers of a response.  Two set-ups are in the        *)
(* repository: OAuthManager.setUp registers a gin middleware that sets the *)
(* headers and returns, after which the endpoint handler runs; the         *)
(* net/http handler AddCacheControlHeadersMiddlewareHandler calls the      *)
(* wrapped handler first and sets the headers when it has returned.  The   *)
(* response writer sends the header map as it is at the first WriteHeader  *)
(* or Write; later changes of the map are not sent.                        *)
(***************************************************************************)
Endpoints ==
  {"well-known", "jwks", "par", "authorize", "callback", "token",
   "userinfo"}

StatusCodes == {"200", "302", "400", "401"}

NoHeaders == [CacheControl |-> "", Pragma |-> ""]

\* Header().Set("Cache-Control", "no-cache, no-store") and
\* Header().Set("Pragma", "no-cache")
SetCacheControlHeaders(header) ==
  [header EXCEPT !.CacheControl = "no-cache, no-store",
                 !.Pragma = "no-cache"]

\* The response writer before the handler chain runs.
NewResponseWriter(server, endpoint) ==
  [op |-> "ServeHTTP", server |-> server, endpoint |-> endpoint,
   pc |-> "middleware", header |-> NoHeaders, wroteHeader |-> FALSE,
   status |-> "", sent |-> NoHeaders]

\* ResponseWriter.WriteHeader, also the implicit one of the first Write: the
\* header map is sent as it is now, once.
WriteHeader(w, status) ==
  IF w.wroteHeader
    THEN w
    ELSE [w EXCEPT !.wroteHeader = TRUE, !.status = status,
                   !.sent = w.header]

InitHTTP ==
  /\ authnSessions = {}
  /\ grantSessions = {}
  /\ req = [r \in Reqs |-> IdleReq]
  /\ now = 0
  /\ nextCode = 1
  /\ crashed = FALSE
  /\ snap = NoSnap
  /\ areq = [a \in AuthorizeReqs |-> IdleAuthorizeReq]
  /\ nextURI = 1
  /\ nextToken = 1
  /\ issued = {}
  /\ rotated = {}
  /\ out = NoResponse
  /\ rreq = [q \in RefreshReqs |-> IdleRefreshReq]
  /\ args = [op |-> "ServeHTTP"]
  /\ \E server \in {"gin", "net/http"}, endpoint \in Endpoints :
       result = NewResponseWriter(server, endpoint)

\* OAuthManager.setUp: the gin middleware sets the headers and returns; the
\* endpoint handler runs next.
GinMiddleware ==
  /\ result.server = "gin"
  /\ result.pc = "middleware"
  /\ result' = [result EXCEPT !.header = SetCacheControlHeaders(@),
                              !.pc = "handler"]
  /\ UNCHANGED <<authnSessions, grantSessions, now, args>>
  /\ UNCHANGED <<tokenVars, authorizeVars, grantVars>>

\* AddCacheControlHeadersMiddlewareHandler.ServeHTTP, first statement: the
\* wrapped handler is called.
CallNextHandler ==
  /\ result.server = "net/http"
  /\ result.pc = "middleware"
  /\ result' = [result EXCEPT !.pc = "handler"]
  /\ UNCHANGED <<authnSessions, grantSessions, now, args>>
  /\ UNCHANGED <<tokenVars, authorizeVars, grantVars>>

\* The endpoint handler writes its response: a status and a body.
HandlerWrites(status) ==
  /\ result.pc = "handler"
  /\ ~result.wroteHeader
  /\ result' = WriteHeader(result, status)
  /\ UNCHANGED <<authnSessions, grantSessions, now, args>>
  /\ UNCHANGED <<tokenVars, authorizeVars, grantVars>>

\* The endpoint handler returns, having written or not.
HandlerReturns ==
  /\ result.pc = "handler"
  /\ result' = [result EXCEPT !.pc = IF result.server = "gin"
                                       THEN "finish" ELSE "after"]
  /\ UNCHANGED <<authnSessions, grantSessions, now, args>>
  /\ UNCHANGED <<tokenVars, authorizeVars, grantVars>>

\* AddCacheControlHeadersMiddlewareHandler.ServeHTTP, the statements after
\* the call: the two headers are set in the header map.
SetHeadersAfterHandler ==
  /\ result.pc = "after"
  /\ result' = [result EXCEPT !.header = SetCacheControlHeaders(@),
                              !.pc = "finish"]
  /\ UNCHANGED <<authnSessions, grantSessions, now, args>>
  /\ UNCHANGED <<tokenVars, authorizeVars, grantVars>>

\* The server finishes the response: a handler chain that wrote nothing is
\* answered with the status 200 and the header map.
FinishResponse ==
  /\ result.pc = "finish"
  /\ result' = [WriteHeader(result, "200") EXCEPT !.pc = "done"]
  /\ UNCHANGED <<authnSessions, grantSessions, now, args>>
  /\ UNCHANGED <<tokenVars, authorizeVars, grantVars>>

NextHTTP ==
  \/ GinMiddleware
  \/ CallNextHandler
  \/ \E status \in StatusCodes : HandlerWrites(status)
  \/ HandlerReturns
  \/ SetHeadersAfterHandler
  \/ FinishResponse

SpecHTTP == InitHTTP /\ [][NextHTTP]_vars

\* The directives of a Cache-Control value.
Directives(value) ==
  CASE value = "no-cache, no-store" -> {"no-cache", "no-store"}
    [] value = "no-store, no-cache" -> {"no-store", "no-cache"}
    [] value = "" -> {}

CarriesCacheControl(sent) ==
  /\ Directives(sent.CacheControl) = {"no-store", "no-cache"}
  /\ sent.Pragma = "no-cache"

\* C34: every response carries Cache-Control with no-store and no-cache and
\* Pragma: no-cache: whenever the header is sent, the two headers are in
\* it.
C34_EveryResponseCarriesCacheControl ==
  result.op = "ServeHTTP" /\ result.wroteHeader
    => CarriesCacheControl(result.sent)

\* The responses of the server set up by OAuthManager.setUp carry them.
C34_GinResponsesCarryCacheControl ==
  result.op = "ServeHTTP" /\ result.wroteHeader /\ result.server = "gin"
    => CarriesCacheControl(result.sent)

\* A response written by a handler wrapped in
\* AddCacheControlHeadersMiddlewareHandler was sent without the headers,
\* which are in the header map by now.
C34_SentWithoutCacheControl ==
  /\ result.op = "ServeHTTP"
  /\ result.server = "net/http"
  /\ result.pc = "done"
  /\ result.sent = NoHeaders
  /\ result.header = SetCacheControlHeaders(NoHeaders)

(***************************************************************************)
(* Dynamic client registration: dcr.CreateClient and dcr.UpdateClient.     *)
(* The metadata of a client is reduced to what the validation and the      *)
(* plugin can tell apart; the steps a call goes through are recorded in    *)
(* the order of the code.                                                  *)
(***************************************************************************)
ClientMetaInfos == [valid : BOOLEAN, tag : {"m1", "m2"}]

\* A host-supplied DCR plugin rewrites the metadata as it likes.
DCRPlugins == [ClientMetaInfos -> ClientMetaInfos]

DynamicClientRequest(id, token, info) ==
  [ID |-> id, RegistrationAccessToken |-> token, ClientMetaInfo |-> info]

\* validateDynamicClientRequest
validateDynamicClientRequest(ctx, dynamicClient) ==
  IF dynamicClient.ClientMetaInfo.valid
    THEN Nil
    ELSE NewOAuthError(ErrorCodeInvalidRequest, "invalid client metadata")

\* ctx.ExecuteDCRPlugin(&dynamicClient.ClientMetaInfo)
ExecuteDCRPlugin(ctx, dynamicClient) ==
  [dynamicClient EXCEPT !.ClientMetaInfo = ctx.DCRPlugin[@]]

\* setCreationDefaults: a fresh id and a fresh registration access token.
setCreationDefaults(ctx, dynamicClient) ==
  [dynamicClient EXCEPT !.ID = ctx.freshID,
                        !.RegistrationAccessToken = ctx.freshToken]

\* setUpdateDefaults: the id stays the one of the stored client.
setUpdateDefaults(ctx, client, dynamicClient) ==
  [dynamicClient EXCEPT !.ID = client.ID]

newClient(dynamicClient) ==
  [ID |-> dynamicClient.ID,
   RegistrationAccessToken |-> dynamicClient.RegistrationAccessToken,
   ClientMetaInfo |-> dynamicClient.ClientMetaInfo]

\* ctx.CreateOrUpdateClient
CreateOrUpdateClient(clients, client) ==
  {c \in clients : c.ID # client.ID} \cup {client}

\* A variant of the tail of both handlers that saves what the plugin
\* returned.
registerWithoutRevalidation(ctx, dynamicClient, steps) ==
  LET plugged == ExecuteDCRPlugin(ctx, dynamicClient) IN
    IF ~ctx.storeOK
      THEN [err |-> NewOAuthError(ErrorCodeInternalError, "store"),
            clients |-> ctx.clients,
            steps |-> steps \o <<"plugin", "save">>]
      ELSE [err |-> Nil,
            clients |-> CreateOrUpdateClient(ctx.clients, newClient(plugged)),
            steps |-> steps \o <<"plugin", "save">>,
            response |-> plugged]

\* What CreateClient and UpdateClient share once the defaults are set and
\* the first validation has passed: plugin, validation, save, response.
register(ctx, dynamicClient, steps) ==
  LET plugged == ExecuteDCRPlugin(ctx, dynamicClient)
      err == validateDynamicClientRequest(ctx, plugged)
  IN IF err # Nil
       THEN [err |-> err, clients |-> ctx.clients,
             steps |-> steps \o <<"plugin", "validate">>]
     ELSE IF ~ctx.storeOK
       THEN [err |-> NewOAuthError(ErrorCodeInternalError, "store"),
             clients |-> ctx.clients,
             steps |-> steps \o <<"plugin", "validate", "save">>]
     ELSE [err |-> Nil,
           clients |-> CreateOrUpdateClient(ctx.clients, newClient(plugged)),
           steps |-> steps \o <<"plugin", "validate", "save">>,
           response |-> plugged]

CreateClient(ctx, dynamicClient) ==
  LET withDefaults == setCreationDefaults(ctx, dynamicClient)
      err == validateDynamicClientRequest(ctx, withDefaults)
  IN IF err # Nil
       THEN [err |-> err, clients |-> ctx.clients,
             steps |-> <<"defaults", "validate">>]
       ELSE register(ctx, withDefaults, <<"defaults", "validate">>)

\* getProtectedClient: the stored client of the id, if the registration
\* access token of the request is the one of that client.
getProtectedClient(ctx, dynamicClient) ==
  IF \E c \in ctx.clients :
       /\ c.ID = dynamicClient.ID
       /\ c.RegistrationAccessToken = dynamicClient.RegistrationAccessToken
    THEN [err |-> Nil,
          client |-> CHOOSE c \in ctx.clients : c.ID = dynamicClient.ID]
    ELSE [err |-> NewOAuthError(ErrorCodeAccessDenied, "invalid token")]

UpdateClient(ctx, dynamicClient) ==
  LET protected == getProtectedClient(ctx, dynamicClient) IN
    IF protected.err # Nil
      THEN [err |-> protected.err, clients |-> ctx.clients,
            steps |-> <<"authenticate">>]
      ELSE LET withDefaults ==
                 setUpdateDefaults(ctx, protected.client, dynamicClient)
               err == validateDynamicClientRequest(ctx, withDefaults)
           IN IF err # Nil
                THEN [err |-> err, clients |-> ctx.clients,
                      steps |-> <<"authenticate", "defaults", "validate">>]
                ELSE register(ctx, withDefaults,
                              <<"authenticate", "defaults", "validate">>)

\* The client store a request finds: empty, or the client cid1.
StoredClients ==
  {{}, {[ID |-> "cid1", RegistrationAccessToken |-> "rat1",
         ClientMetaInfo |-> [valid |-> TRUE, tag |-> "m1"]]}}

DCRArgs ==
  [op : {"CreateClient", "UpdateClient"},
   ctx : [DCRPlugin : DCRPlugins, storeOK : BOOLEAN,
          clients : StoredClients, freshID : {"cid2"},
          freshToken : {"rat2"}],
   dynamicClient : {DynamicClientRequest(id, token, info) :
                      id \in {"cid1"}, token \in {"rat1", "bad"},
                      info \in ClientMetaInfos}]

InitDCR ==
  /\ authnSessions = {}
  /\ grantSessions = {}
  /\ req = [r \in Reqs |-> IdleReq]
  /\ now = 0
  /\ nextCode = 1
  /\ crashed = FALSE
  /\ snap = NoSnap
  /\ areq = [a \in AuthorizeReqs |-> IdleAuthorizeReq]
  /\ nextURI = 1
  /\ nextToken = 1
  /\ issued = {}
  /\ rotated = {}
  /\ out = NoResponse
  /\ rreq = [q \in RefreshReqs |-> IdleRefreshReq]
  /\ args \in DCRArgs
  /\ result = NoResult

\* POST /register
RegisterClient ==
  /\ result = NoResult
  /\ args.op = "CreateClient"
  /\ result' = [op |-> args.op] @@ CreateClient(args.ctx, args.dynamicClient)
  /\ UNCHANGED <<authnSessions, grantSessions, now, args>>
  /\ UNCHANGED <<tokenVars, authorizeVars, grantVars>>

\* PUT /register/:client_id
UpdateRegisteredClient ==
  /\ result = NoResult
  /\ args.op = "UpdateClient"
  /\ result' = [op |-> args.op] @@ UpdateClient(args.ctx, args.dynamicClient)
  /\ UNCHANGED <<authnSessions, grantSessions, now, args>>
  /\ UNCHANGED <<tokenVars, authorizeVars, grantVars>>

NextDCR ==
  \/ RegisterClient
  \/ UpdateRegisteredClient

SpecDCR == InitDCR /\ [][NextDCR]_vars

DCRAnswered == result.op \in {"CreateClient", "UpdateClient"}

Positions(steps, step) == {i \in 1..Len(steps) : steps[i] = step}

\* C35: in a registration or update the plugin runs after a validation of
\* the metadata and before another one, and a client is saved only after
\* the last validation has passed: nothing runs between that validation
\* and the save, the store changes in no other case, and what is stored is
\* metadata the validation accepts.
C35_PluginBetweenValidationsSaveAfterLast ==
  DCRAnswered =>
    LET steps == result.steps IN
      /\ \A p \in Positions(steps, "plugin") :
           /\ \E v \in Positions(steps, "validate") : v < p
           /\ \E v \in Positions(steps, "validate") : v > p
      /\ \A s \in Positions(steps, "save") :
           /\ s = Len(steps)
           /\ s > 1 /\ steps[s - 1] = "validate"
           /\ Positions(steps, "plugin") # {}
      /\ result.clients # args.ctx.clients =>
           /\ result.err = Nil
           /\ Positions(steps, "save") # {}
      /\ result.err = Nil =>
           /\ Positions(steps, "save") # {}
           /\ \E c \in result.clients :
                /\ c.ClientMetaInfo = args.ctx.DCRPlugin[
                                        args.dynamicClient.ClientMetaInfo]
                /\ validateDynamicClientRequest(args.ctx, c) = Nil

\* A client was registered with metadata the plugin had rewritten: the
\* request was valid as sent, the plugin changed it, and the changed
\* metadata is what passed the last validation and was stored.
C35_Witness ==
  /\ DCRAnswered
  /\ result.op = "CreateClient"
  /\ result.err = Nil
  /\ result.steps = <<"defaults", "validate", "plugin", "validate", "save">>
  /\ args.ctx.DCRPlugin[args.dynamicClient.ClientMetaInfo]
       # args.dynamicClient.ClientMetaInfo
  /\ \E c \in result.clients :
       /\ c.ID = "cid2"
       /\ c.ClientMetaInfo
            = args.ctx.DCRPlugin[args.dynamicClient.ClientMetaInfo]

(***************************************************************************)
(* A failed verification and the retry of its authorization code.          *)
(***************************************************************************)
\* The request loaded the session of its code and was then refused by
\* validateAuthorizationCodeGrantRequest.
FailedVerification(r) ==
  /\ req[r].pc = "done"
  /\ req[r].session # NoSession
  /\ req[r].resp \in {ErrorCodeInvalidGrant, ErrorCodeInvalidRequest}

\* Request r2 presents the code of the refused request r1 after the session
\* is gone, and has been answered.
RetryOf(r1, r2) ==
  /\ r1 # r2
  /\ FailedVerification(r1)
  /\ req[r2].pc = "done"
  /\ req[r2].client # NoClient
  /\ req[r2].in.AuthorizationCode = req[r1].in.AuthorizationCode
  /\ LookupFoundNothing(r2)

\* C36 (first half): once a redemption has been refused by the verification
\* that follows the load, the authn session of its code is no longer stored.
C36_FailedVerificationConsumesCode ==
  \A r \in Reqs :
    FailedVerification(r) =>
      \A s \in authnSessions :
        s.AuthorizationCode # req[r].in.AuthorizationCode

\* C36: a redemption refused by the verification that follows the load has
\* consumed the code, and a retry of that code is answered invalid_grant.
C36_RetryAfterFailedVerificationIsInvalidGrant ==
  \A r1 \in Reqs, r2 \in Reqs :
    RetryOf(r1, r2) =>
      /\ \A s \in authnSessions :
           s.AuthorizationCode # req[r1].in.AuthorizationCode
      /\ req[r2].resp = ErrorCodeInvalidGrant

\* A retry of a consumed code whose handler ended in the panic of the
\* unchecked type assertion.
C36_RetryPanics ==
  \E r1 \in Reqs, r2 \in Reqs : RetryOf(r1, r2) /\ req[r2].resp = "panic"

(***************************************************************************)
(* The life of the session-lookup goroutine.                               *)
(***************************************************************************)
\* The goroutine of request r is at a send that no receiver will take: the
\* handler has returned.
BlockedOnSend(r) ==
  /\ req[r].pc = "done"
  /\ req[r].g \in {"send_notfound", "send_delerr", "send_ok"}

\* The goroutine of request r went on after a failed lookup, to the
\* statements that use the session.
RunsOnMissingSession(r) == req[r].g \in {"deref", "panicked"}

\* C37: in every code redemption the lookup goroutine sends one result and
\* terminates: it is never left at a send after the handler has returned,
\* and it never goes on after a failed lookup to use the missing session.
C37_GoroutineSendsOnceAndTerminates ==
  \A r \in Reqs : ~BlockedOnSend(r) /\ ~RunsOnMissingSession(r)

\* C37 (success path): a redemption that issued a token has received the
\* one result of its goroutine, and the goroutine has returned.
C37_RedeemedGoroutineTerminated ==
  \A r \in Reqs : Redeemed(r) => req[r].g = "done"

\* The client authentication failed and the goroutine is left at its send.
C37_BlockedAfterFailedAuthentication ==
  \E r \in Reqs :
    /\ BlockedOnSend(r)
    /\ req[r].resp = ErrorCodeInvalidClient
    /\ req[r].g = "send_ok"
    /\ req[r].gsession \notin authnSessions

(***************************************************************************)
(* GET /authorize: initValidAuthnSession chooses how the session of an     *)
(* authorization request is initiated, first by PAR, then by JAR, then     *)
(* from the plain parameters.  The validator chains are not followed       *)
(* here: whether the parameters pass them is a field of the request.       *)
(***************************************************************************)
shouldInitAuthnSessionWithPar(ctx, r) ==
  ctx.ParIsRequired \/ (ctx.ParIsEnabled /\ r.RequestURI # Empty)

getSessionCreatedWithPar(ctx, r) ==
  IF r.RequestURI = Empty
    THEN [err |-> NewOAuthError(ErrorCodeInvalidRequest,
                                "request_uri is required"),
          session |-> NoSession]
  ELSE IF AuthnSessionByRequestURI(r.RequestURI) = NoSession
    THEN [err |-> NewOAuthError(ErrorCodeInvalidRequest,
                                "invalid request_uri"),
          session |-> NoSession]
  ELSE [err |-> Nil, session |-> AuthnSessionByRequestURI(r.RequestURI)]

\* The outcome of the validator chain on the request.
validateAuthorizationRequest(ctx, r, client) ==
  IF r.valid THEN Nil
  ELSE NewOAuthError(ErrorCodeInvalidRequest, "invalid parameters")

\* The result carries the stored sessions the call leaves behind: a pushed
\* session whose request does not validate is deleted.  Updated holds the
\* outer parameters given to session.UpdateParams.
initValidAuthnSessionWithPar(ctx, r, client) ==
  LET s == getSessionCreatedWithPar(ctx, r) IN
    IF s.err # Nil
      THEN [err |-> NewOAuthError(ErrorCodeInvalidRequest,
                                  "invalid request_uri"),
            session |-> NoSession, branch |-> "PAR",
            stored |-> authnSessions]
    ELSE IF validateAuthorizationRequest(ctx, r, client) # Nil
      THEN [err |-> validateAuthorizationRequest(ctx, r, client),
            session |-> NoSession, branch |-> "PAR",
            stored |-> DeleteAuthnSession(s.session.ID)]
    ELSE [err |-> Nil, session |-> [Updated |-> r] @@ s.session,
          branch |-> "PAR", stored |-> authnSessions]

getJar(ctx, r, client) ==
  IF r.RequestObject = NoRequestObject
    THEN [err |-> NewOAuthError(ErrorCodeInvalidRequest,
                                "request object is required"),
          jar |-> Nil]
    ELSE ExtractJarFromRequestObject(ctx, r.RequestObject, client)

initValidAuthorizeSessionWithJar(ctx, r, client) ==
  LET j == getJar(ctx, r, client) IN
    IF j.err # Nil
      THEN [err |-> j.err, session |-> NoSession, branch |-> "JAR",
            stored |-> authnSessions]
    ELSE IF validateAuthorizationRequest(ctx, r, client) # Nil
      THEN [err |-> validateAuthorizationRequest(ctx, r, client),
            session |-> NoSession, branch |-> "JAR",
            stored |-> authnSessions]
    ELSE [err |-> Nil,
          session |-> [Updated |-> r] @@ NewSession(j.jar, client),
          branch |-> "JAR", stored |-> authnSessions]

initValidSimpleAuthorizeSession(ctx, r, client) ==
  IF validateAuthorizationRequest(ctx, r, client) # Nil
    THEN [err |-> validateAuthorizationRequest(ctx, r, client),
          session |-> NoSession, branch |-> "simple",
          stored |-> authnSessions]
    ELSE [err |-> Nil, session |-> NewSession(r, client),
          branch |-> "simple", stored |-> authnSessions]

initValidAuthnSession(ctx, r, client) ==
  IF shouldInitAuthnSessionWithPar(ctx, r)
    THEN initValidAuthnSessionWithPar(ctx, r, client)
  ELSE IF ShouldInitAuthnSessionWithJar(ctx, r, client)
    THEN initValidAuthorizeSessionWithJar(ctx, r, client)
  ELSE initValidSimpleAuthorizeSession(ctx, r, client)

\* The session a POST /par of client cid1 has stored under request_uri 1.
PushedSession ==
  AuthnSession(1, "cid1", <<"a">>, 1, Empty, Empty, 0, ParLifetimeSecs, {})

\* The authorization requests of the model: every combination of the PAR
\* and JAR settings, a client with and without a registered signing
\* algorithm for request objects, a request with and without a request_uri
\* (stored or not) and with and without a request object (well signed or
\* not), whose parameters pass the validators or not.
InitSessionArgs ==
  [op : {"initValidAuthnSession"},
   ctx : {c \in [ParIsEnabled : BOOLEAN, ParIsRequired : BOOLEAN,
                 JarIsEnabled : BOOLEAN, JarIsRequired : BOOLEAN] :
            /\ c.ParIsRequired => c.ParIsEnabled
            /\ c.JarIsRequired => c.JarIsEnabled},
   client : [ID : {"cid1"}, JarSignatureAlgorithm : {"", "RS256"}],
   req : [RequestURI : {Empty, 1, 2},
          RequestObject :
            {NoRequestObject} \cup
            {RequestObject(signed, "cid1", Empty, PushedParams(<<"a">>, Empty)) :
               signed \in BOOLEAN},
          RedirectURI : {<<"a">>},
          valid : BOOLEAN]]

InitInitSession ==
  /\ authnSessions \in {{}, {PushedSession}}
  /\ grantSessions = {}
  /\ req = [r \in Reqs |-> IdleReq]
  /\ now = 0
  /\ nextCode = 1
  /\ crashed = FALSE
  /\ snap = NoSnap
  /\ areq = [a \in AuthorizeReqs |-> IdleAuthorizeReq]
  /\ nextURI = 2
  /\ nextToken = 1
  /\ issued = {}
  /\ rotated = {}
  /\ out = NoResponse
  /\ rreq = [q \in RefreshReqs |-> IdleRefreshReq]
  /\ args \in InitSessionArgs
  /\ result = NoResult

\* GET /authorize up to the initiated session.
InitSession ==
  /\ result = NoResult
  /\ args.op = "initValidAuthnSession"
  /\ LET s == initValidAuthnSession(args.ctx, args.req, args.client) IN
       /\ result' = [op |-> args.op, err |-> s.err, session |-> s.session,
                     branch |-> s.branch]
       /\ authnSessions' = s.stored
  /\ UNCHANGED <<grantSessions, now, args>>
  /\ UNCHANGED <<tokenVars, authorizeVars, grantVars>>

NextInitSession == InitSession

SpecInitSession == InitInitSession /\ [][NextInitSession]_vars

(***************************************************************************)
(* Vocabulary of the claim about request objects at /authorize.            *)
(***************************************************************************)
SessionInitiated == result.op = "initValidAuthnSession"

\* JAR is required, or the client has registered a signing algorithm for
\* its request objects.
JarIsDemanded ==
  args.ctx.JarIsRequired \/ args.client.JarSignatureAlgorithm # ""

\* The request is resolved from a pushed request: it names a request_uri
\* and PAR is in use.
ResolvedFromRequestURI ==
  args.req.RequestURI # Empty /\ args.ctx.ParIsEnabled

\* C38 (as stated): when a request object is demanded, every authorization
\* request without one is rejected with invalid_request and no session is
\* created from the plain parameters.
C38_NoRequestObjectIsInvalidRequest ==
  (SessionInitiated /\ JarIsDemanded
     /\ args.req.RequestObject = NoRequestObject) =>
    /\ result.err # Nil
    /\ result.err.ErrorCode = ErrorCodeInvalidRequest
    /\ result.session = NoSession

\* C38 (amended): when a request object is demanded, an authorization
\* request without one that is not resolved from a pushed request_uri is
\* rejected with invalid_request; and whatever the request, no session is
\* created from the plain parameters alone.
C38_NoRequestObjectOutsidePARIsInvalidRequest ==
  (SessionInitiated /\ JarIsDemanded) =>
    /\ (args.req.RequestObject = NoRequestObject /\ ~ResolvedFromRequestURI) =>
         /\ result.err # Nil
         /\ result.err.ErrorCode = ErrorCodeInvalidRequest
         /\ result.session = NoSession
    /\ result.err = Nil => result.branch \in {"PAR", "JAR"}

\* The client has registered a signing algorithm, JAR is not required, and
\* its valid request without a request object and without a request_uri has
\* been rejected for the missing request object.
C38_Witness ==
  /\ SessionInitiated
  /\ ~args.ctx.JarIsRequired
  /\ ~args.ctx.ParIsRequired
  /\ args.client.JarSignatureAlgorithm # ""
  /\ args.req.RequestObject = NoRequestObject
  /\ args.req.RequestURI = Empty
  /\ args.req.valid
  /\ result.err = NewOAuthError(ErrorCodeInvalidRequest,
                                "request object is required")

(***************************************************************************)
(* Introspection of token strings.  A string is carried by its length,     *)
(* by the number of dots in it and by a number standing for its            *)
(* characters; a serialised JWT also carries its claims.                   *)
(***************************************************************************)
RefreshTokenLength == 30

EmptyString == [len |-> 0, dots |-> 0, text |-> 0]

\* RandomString(n, n): n characters of the alphabet, none of them a dot.
RandomString(n, text) == [len |-> n, dots |-> 0, text |-> text]

\* uuid.NewString: 36 characters.
NewUUID(text) == RandomString(36, text)

\* jwt.Signed(signer).Claims(claims).Serialize: header, payload and
\* signature joined by two dots, longer than the claims it carries.
Serialize(claims, text) ==
  [len |-> 100 + claims.jti.len, dots |-> 2, text |-> text, claims |-> claims]

\* IsJWS: three runs of word characters separated by two dots.
IsJWS(token) == token.dots = 2

\* makeOpaqueToken: the token's id is its value, a random string of the
\* configured length.
makeOpaqueToken(opaqueTokenLength, text) ==
  [ID |-> RandomString(opaqueTokenLength, text), Format |-> Opaque,
   Value |-> RandomString(opaqueTokenLength, text)]

\* makeJwtToken: the token's id is the jti of the serialised claims.
makeJWTToken(text) ==
  [ID |-> NewUUID(text), Format |-> JWT,
   Value |-> Serialize([jti |-> NewUUID(text)], text)]

getJWTTokenIntrospectionInfo(token) ==
  IF "claims" \notin DOMAIN token THEN FALSE
  ELSE tokenIntrospectionInfoByID(token.claims.jti)

opaqueTokenIntrospectionInfo(token) == tokenIntrospectionInfoByID(token)

\* IsActive of the introspection info of a token string.
TokenIntrospectionInfoOfString(token) ==
  IF token.len = RefreshTokenLength
    THEN getRefreshTokenIntrospectionInfo(token)
  ELSE IF IsJWS(token)
    THEN getJWTTokenIntrospectionInfo(token)
  ELSE opaqueTokenIntrospectionInfo(token)

\* The lengths the token options give to opaque access tokens.
OpaqueTokenLengths == {20, RefreshTokenLength}

\* The token options of the model: a JWT, or an opaque token of one of
\* the lengths.
TokenOptionsSet ==
  {[TokenFormat |-> JWT, OpaqueTokenLength |-> 0]} \cup
  {[TokenFormat |-> Opaque, OpaqueTokenLength |-> n] : n \in OpaqueTokenLengths}

\* The token strings of the model.
TokenStrings ==
  UNION {{makeJWTToken(t).Value, RandomString(RefreshTokenLength, t)} \cup
         {makeOpaqueToken(n, t).Value : n \in OpaqueTokenLengths} :
           t \in 1..(2 * MaxGrants)}

\* A code is redeemed: the access token is made as the token options say,
\* and the grant session is stored under the token's id, with a refresh
\* token when offline_access is granted.
IssueTokenString(opts, scopes) ==
  /\ Cardinality(grantSessions) < MaxGrants
  /\ LET token == IF opts.TokenFormat = JWT
                    THEN makeJWTToken(nextToken)
                    ELSE makeOpaqueToken(opts.OpaqueTokenLength, nextToken)
         refreshToken == RandomString(RefreshTokenLength, nextToken + 1)
         session ==
           [generateAuthorizationCodeGrantSession(
              nextToken, nextToken, "cid1", scopes, nextToken + 1)
            EXCEPT !.TokenID = token.ID,
                   !.RefreshToken = IF @ = Empty THEN EmptyString
                                    ELSE refreshToken] IN
       /\ grantSessions' = CreateOrUpdateGrantSession(session)
       /\ issued' = issued \cup {token.Value} \cup
                      (IF session.RefreshToken # EmptyString
                         THEN {refreshToken} ELSE {})
  /\ nextToken' = nextToken + 2
  /\ UNCHANGED <<authnSessions, now, tokenVars, callVars, authorizeVars,
                 rotated, out, rreq>>

\* POST /introspect with a token the server has handed out.
IntrospectString(token) ==
  /\ token \in issued
  /\ out' = [op |-> "TokenIntrospectionInfo", token |-> token,
             IsActive |-> TokenIntrospectionInfoOfString(token), at |-> now]
  /\ UNCHANGED <<authnSessions, grantSessions, now, tokenVars, callVars,
                 authorizeVars, nextToken, issued, rotated, rreq>>

NextIntrospect ==
  \/ \E opts \in TokenOptionsSet,
        scopes \in {{ScopeOpenID}, {ScopeOpenID, ScopeOfflineAccess}} :
       IssueTokenString(opts, scopes)
  \/ \E token \in TokenStrings : IntrospectString(token)
  \/ Tick

SpecIntrospect == Init /\ [][NextIntrospect]_vars

(***************************************************************************)
(* Vocabulary of the claim about introspection.                            *)
(***************************************************************************)
\* The id under which the grant session of an access token is stored.
TokenIDOf(token) == IF IsJWS(token) THEN token.claims.jti ELSE token

\* The grant session was live at time t: not expired, and its last token
\* within its lifetime.
LiveAt(g, t) ==
  /\ t <= g.ExpiresAtTimestamp
  /\ t <= g.LastTokenIssuedAtTimestamp + g.TokenLifetimeSecs

\* The introspected token is the access token of a grant session live at
\* the time of the call.
IntrospectedLiveAccessToken ==
  /\ out.op = "TokenIntrospectionInfo"
  /\ \E g \in grantSessions :
       g.TokenID = TokenIDOf(out.token) /\ LiveAt(g, out.at)

\* The introspected token is the refresh token of a grant session that is
\* not expired at the time of the call.
IntrospectedLiveRefreshToken ==
  /\ out.op = "TokenIntrospectionInfo"
  /\ \E g \in grantSessions :
       g.RefreshToken = out.token /\ out.at <= g.ExpiresAtTimestamp

\* C39: every token whose grant session is live is reported active: a
\* refresh token, and an access token, JWT or opaque, of any length.
C39_LiveTokenIsActive ==
  (IntrospectedLiveRefreshToken \/ IntrospectedLiveAccessToken)
    => out.IsActive

\* C39 (the part that holds): a live refresh token, and a live access
\* token whose value is not RefreshTokenLength characters long, are
\* reported active.
C39_LiveTokenOfOtherLengthIsActive ==
  (\/ IntrospectedLiveRefreshToken
   \/ IntrospectedLiveAccessToken /\ out.token.len # RefreshTokenLength)
    => out.IsActive

\* A live opaque access token of RefreshTokenLength characters has been
\* reported inactive.
C39_LiveOpaqueTokenInactive ==
  /\ IntrospectedLiveAccessToken
  /\ ~IsJWS(out.token)
  /\ out.token.len = RefreshTokenLength
  /\ ~out.IsActive

(***************************************************************************)
(* The claims of an access token, of an ID token and of an introspection   *)
(* response: the server's entries are written to a map, and the            *)
(* additional claims are written to the same map afterwards.  No client    *)
(* certificate is presented and no authorization details are granted.      *)
(***************************************************************************)
\* makeJwtToken: the claims that are signed.  jwtId is the new uuid.
makeJwtTokenClaims(ctx, client, grantOptions, jwtId) ==
  LET claims == [jti |-> jwtId, iss |-> ctx.Host,
                 sub |-> grantOptions.Subject, client_id |-> client.ID,
                 scope |-> grantOptions.GrantedScopes, iat |-> ctx.now,
                 exp |-> ctx.now + grantOptions.TokenExpiresInSecs]
      confirmation ==
        IF ctx.DpopIsEnabled /\ ctx.DpopJwtThumbprint # ""
          THEN [jkt |-> ctx.DpopJwtThumbprint]
          ELSE NoClaims
      withConfirmation ==
        IF DOMAIN confirmation # {}
          THEN [cnf |-> confirmation] @@ claims
          ELSE claims
  IN grantOptions.AdditionalTokenClaims @@ withConfirmation

\* TokenInfo.MarshalJSON: the members of the JSON object.
MarshalJSON(info) ==
  IF ~info.IsActive THEN [active |-> FALSE]
  ELSE LET params == [active |-> TRUE, token_usage |-> info.TokenUsage,
                      sub |-> info.Subject, scope |-> info.Scopes,
                      client_id |-> info.ClientID,
                      exp |-> info.ExpiresAtTimestamp]
           confirmation ==
             IF info.JWKThumbprint # ""
               THEN [jkt |-> info.JWKThumbprint]
               ELSE NoClaims
           withConfirmation ==
             IF DOMAIN confirmation # {}
               THEN [cnf |-> confirmation] @@ params
               ELSE params
       IN info.AdditionalTokenClaims @@ withConfirmation

\* The claims the server computes itself.
ReservedClaims == {"iss", "sub", "client_id", "scope", "exp", "cnf", "active"}

\* The value a policy or the token options give to a claim of their own
\* choice, of the kind the server's value has.
AdditionalClaimValue(k) ==
  CASE k \in {"exp"} -> 99
    [] k \in {"active"} -> FALSE
    [] k \in {"cnf"} -> [jkt |-> "other"]
    [] OTHER -> "other"

\* The additional claims of the model: none, one custom claim, or one claim
\* under a reserved name.
AdditionalClaimSets ==
  {NoClaims} \cup
  {[k \in {key} |-> AdditionalClaimValue(key)] :
     key \in ReservedClaims \cup {"custom"}}

ClaimsArgs ==
  [op : {"makeJwtToken"},
   ctx : [Host : {"https://host"}, now : {0, 1}, DpopIsEnabled : BOOLEAN,
          DpopJwtThumbprint : {"", "jkt1"}],
   client : [ID : {"cid1"}],
   grantOptions : [Subject : {"user1"}, GrantedScopes : {"openid"},
                   TokenExpiresInSecs : {TokenLifetimeSecs},
                   AdditionalTokenClaims : AdditionalClaimSets]]
  \cup
  [op : {"makeIdToken"},
   ctx : [Host : {"https://host"}, now : {0, 1},
          IdTokenExpiresInSecs : {IdTokenExpiresInSecs}],
   client : [ID : {"cid1"}, IdTokenSignatureAlgorithm : {"RS256"}],
   idTokenOpts : [Subject : {"user1"}, ClientId : {"cid1"},
                  AdditionalIdTokenClaims : AdditionalClaimSets,
                  AccessToken : {"", "at1"}, AuthorizationCode : {""},
                  State : {""}]]
  \cup
  [op : {"MarshalJSON"},
   info : [IsActive : BOOLEAN, TokenUsage : {"access_token"},
           Subject : {"user1"}, Scopes : {"openid"}, ClientID : {"cid1"},
           ExpiresAtTimestamp : {TokenLifetimeSecs},
           JWKThumbprint : {"", "jkt1"},
           AdditionalTokenClaims : AdditionalClaimSets]]

InitClaims ==
  /\ authnSessions = {}
  /\ grantSessions = {}
  /\ req = [r \in Reqs |-> IdleReq]
  /\ now = 0
  /\ nextCode = 1
  /\ crashed = FALSE
  /\ snap = NoSnap
  /\ areq = [a \in AuthorizeReqs |-> IdleAuthorizeReq]
  /\ nextURI = 1
  /\ nextToken = 1
  /\ issued = {}
  /\ rotated = {}
  /\ out = NoResponse
  /\ rreq = [q \in RefreshReqs |-> IdleRefreshReq]
  /\ args \in ClaimsArgs
  /\ result = NoResult

\* An access token is made.
MakeAccessToken ==
  /\ result = NoResult
  /\ args.op = "makeJwtToken"
  /\ result' = [op |-> args.op,
                claims |-> makeJwtTokenClaims(args.ctx, args.client,
                                              args.grantOptions, "uuid1")]
  /\ UNCHANGED <<authnSessions, grantSessions, now, args>>
  /\ UNCHANGED <<tokenVars, authorizeVars, grantVars>>

\* An ID token is made.
MakeIDToken ==
  /\ result = NoResult
  /\ args.op = "makeIdToken"
  /\ result' = [op |-> args.op,
                claims |-> makeIdToken(args.ctx, args.client,
                                       args.idTokenOpts)]
  /\ UNCHANGED <<authnSessions, grantSessions, now, args>>
  /\ UNCHANGED <<tokenVars, authorizeVars, grantVars>>

\* An introspection response is written.
MarshalTokenInfo ==
  /\ result = NoResult
  /\ args.op = "MarshalJSON"
  /\ result' = [op |-> args.op, claims |-> MarshalJSON(args.info)]
  /\ UNCHANGED <<authnSessions, grantSessions, now, args>>
  /\ UNCHANGED <<tokenVars, authorizeVars, grantVars>>

NextClaims ==
  \/ MakeAccessToken
  \/ MakeIDToken
  \/ MarshalTokenInfo

SpecClaims == InitClaims /\ [][NextClaims]_vars

(***************************************************************************)
(* Vocabulary of the claim about additional claims.                        *)
(***************************************************************************)
ClaimsEmitted == result.op \in {"makeJwtToken", "makeIdToken", "MarshalJSON"}

\* What the server emits for the same call when there are no additional
\* claims.
ServerClaims ==
  CASE args.op = "makeJwtToken" ->
         makeJwtTokenClaims(
           args.ctx, args.client,
           [args.grantOptions EXCEPT !.AdditionalTokenClaims = NoClaims],
           "uuid1")
    [] args.op = "makeIdToken" ->
         makeIdToken(
           args.ctx, args.client,
           [args.idTokenOpts EXCEPT !.AdditionalIdTokenClaims = NoClaims])
    [] args.op = "MarshalJSON" ->
         MarshalJSON([args.info EXCEPT !.AdditionalTokenClaims = NoClaims])

\* The additional claims of the call.
AdditionalClaimsOfCall ==
  CASE args.op = "makeJwtToken" -> args.grantOptions.AdditionalTokenClaims
    [] args.op = "makeIdToken" -> args.idTokenOpts.AdditionalIdTokenClaims
    [] args.op = "MarshalJSON" -> args.info.AdditionalTokenClaims

\* Under every reserved name the emitted claims have what the server
\* computed: the same value, or no entry where the server made none.
ReservedClaimsAreTheServers ==
  \A k \in ReservedClaims :
    /\ (k \in DOMAIN result.claims) <=> (k \in DOMAIN ServerClaims)
    /\ (k \in DOMAIN result.claims) => result.claims[k] = ServerClaims[k]

\* C40: additional claims never override the reserved claims of an access
\* token, an ID token or an introspection response: under every reserved
\* name the emitted value is the one the server computed.
C40_AdditionalClaimsNeverOverrideReserved ==
  ClaimsEmitted => ReservedClaimsAreTheServers

\* C40 (the part that holds): additional claims under other names leave
\* the reserved claims as the server computed them.
C40_OtherNamesLeaveReservedClaims ==
  (ClaimsEmitted /\ DOMAIN AdditionalClaimsOfCall \cap ReservedClaims = {})
    => ReservedClaimsAreTheServers

\* The introspection response of an active token says what the additional
\* claims say: the token is not active.
C40_ActiveOverridden ==
  /\ result.op = "MarshalJSON"
  /\ args.info.IsActive
  /\ result.claims.active = FALSE

====
